---- MODULE Spec2Model ----
(***************************************************************************)
(* reinfolib: typed client for the MLIT real-estate information library.   *)
(*                                                                         *)
(* The module models                                                       *)
(*   - ApiHttpClient (reinfolib/api_http_client.py): URL building, the     *)
(*     lazily created requests.Session with its mounted HTTPAdapter and    *)
(*     urllib3 Retry policy, header merging and get_json;                  *)
(*   - Client (reinfolib/api_client.py): the endpoint methods, each a      *)
(*     fixed request path handed to _get_data or _get_geo_data.            *)
(*                                                                         *)
(* Python values: a dict is a function from its keys, a str is a string,   *)
(* None is the value None below, an object reference is the index of the   *)
(* object in the sequence of objects created so far (0: no object).  A     *)
(* headers dict, whose insertion order decides what is sent, is the        *)
(* sequence of its (key, value) pairs in insertion order.                  *)
(***************************************************************************)
EXTENDS Integers, Sequences, FiniteSets, TLC

VARIABLES
    api_key,        \* ApiHttpClient._api_key
    base_url,       \* ApiHttpClient._base_url
    max_retries,    \* ApiHttpClient._max_retries
    http_connection_pool_size, \* ApiHttpClient._http_connection_pool_size
    session,        \* ApiHttpClient._session: 0 is None, k the k-th Session created
    sessions,       \* every requests.Session created so far, in creation order
    pc,             \* position of the sequential caller: "idle", "sending", "done"
    call,           \* the arguments of the call in progress (or last finished)
    req,            \* the arguments session.get was called with
    query,          \* the query string of the request, as key/value pairs
    sent,           \* the header block of the request, by lower-case name
    caller,         \* the caller's params and options mappings, as they are now
    getCount,       \* session.get invocations made by the call
    attempts,       \* HTTP requests put on the wire by the call
    retry,          \* the urllib3 Retry object of the request in progress
    hist,           \* what came back for each attempt of the call, in order
    outcome,        \* how get_json ended: returned body or raised exception
    facade,         \* how the Client method ended
    calls,          \* calls started so far on this client
    facadeCalls,    \* Client method calls started so far
    usedSessions,   \* the Session objects the calls handed their GET to
    kept,           \* the call and the result the caller kept of its previous call
    asked,          \* the arguments of the latest sequential _request_session call
    tpc,            \* per thread: position inside a concurrent get_json
    tlocal,         \* per thread: the Session reference it ended up holding
    tconn,          \* per thread: the adapter its connection belongs to
    mounted,        \* per Session: the thread whose adapter is mounted (0: none)
    pool,           \* per adapter: connections (or free slots) queued in its pool
    geom,           \* the raw geometry dict handed to Geometry
    validated       \* what Geometry made of it: the model or a ValidationError

vars == << api_key, base_url, max_retries, http_connection_pool_size, session,
           sessions, pc, call, req, query, sent, caller, getCount, attempts, retry, hist,
           outcome, facade, calls, facadeCalls, usedSessions, kept, asked,
           tpc, tlocal, tconn, mounted, pool, geom, validated >>

clientVars == << api_key, base_url, max_retries, http_connection_pool_size >>
threadVars == << tpc, tlocal, tconn, mounted, pool >>
callVars == << pc, call, req, query, sent, caller, getCount, attempts, retry, hist, outcome,
               facade, calls, facadeCalls, usedSessions, kept, asked >>
modelVars == << geom, validated >>

(***************************************************************************)
(* Bounds of the model.                                                    *)
(***************************************************************************)
MaxRetriesCfg == 3      \* max_retries is drawn from 0..MaxRetriesCfg
MaxCalls == 2           \* sequential calls made on one client
NThreads == 2           \* threads calling get_json concurrently
MaxPool == 1            \* http_connection_pool_size is drawn from 1..MaxPool
MaxWidth == 2           \* elements of an innermost coordinates list

(***************************************************************************)
(* Program constants.                                                      *)
(***************************************************************************)
DEFAULT_BASE_URL == "https://www.reinfolib.mlit.go.jp"
DEFAULT_MAX_RETRIES == 3
DEFAULT_POOL_SIZE == 10
REQUEST_TIMEOUT == 30
AUTH_HEADER == "Ocp-Apim-Subscription-Key"

None == "<None>"        \* Python's None, distinct from every str of the model

\* Optional[dict]: None is the empty sequence, a dict d the sequence << d >>
NoneDict == << >>
Some(d) == << d >>

EmptyDict == [k \in {} |-> None]

Range(f) == { f[i] : i \in DOMAIN f }

\* {**a, **b}
DictMerge(a, b) ==
    [k \in (DOMAIN a) \cup (DOMAIN b) |-> IF k \in DOMAIN b THEN b[k] ELSE a[k]]

\* d.get(k, default)
DictGet(d, k, default) == IF k \in DOMAIN d THEN d[k] ELSE default

\* an insertion-ordered dict: its keys, and the value of one of them
Keys(items) == { items[i][1] : i \in DOMAIN items }
ItemValue(items, k) == items[CHOOSE i \in DOMAIN items : items[i][1] = k][2]

\* d[k] = v: a key already there keeps its place, a new key goes last
SetItem(items, k, value) ==
    IF k \in Keys(items)
    THEN [i \in DOMAIN items |-> IF items[i][1] = k THEN << k, value >> ELSE items[i]]
    ELSE Append(items, << k, value >>)

\* {**a, **b} on insertion-ordered dicts
RECURSIVE ItemsMerge(_, _)
ItemsMerge(a, b) ==
    IF b = << >> THEN a
    ELSE ItemsMerge(SetItem(a, b[1][1], b[1][2]), Tail(b))

StartsWith(s, prefix) ==
    /\ Len(s) >= Len(prefix)
    /\ SubSeq(s, 1, Len(prefix)) = prefix

(***************************************************************************)
(* ApiHttpClient._make_url                                                 *)
(***************************************************************************)
_make_url(request_path) == base_url \o "/" \o request_path

(***************************************************************************)
(* ApiHttpClient._with_auth_headers                                        *)
(***************************************************************************)
AuthHeadersCallerWins(headers) ==
    ItemsMerge(<< << AUTH_HEADER, api_key >> >>, headers)

\* {**headers, "Ocp-Apim-Subscription-Key": self._api_key}
_with_auth_headers(headers) == SetItem(headers, AUTH_HEADER, api_key)

(***************************************************************************)
(* The retry policy and adapter built by _request_session, and the Session *)
(* it mounts the adapter on.  Retry(total, status_forcelist,               *)
(* allowed_methods) keeps urllib3's defaults for what is not passed:       *)
(* raise_on_status and respect_retry_after_header are on.  HTTPAdapter     *)
(* keeps pool_block off.  requests.Session() comes with a default adapter  *)
(* (no retries, pool of 10) on both "https://" and "http://"; mount        *)
(* replaces the one for its prefix.                                        *)
(***************************************************************************)
DefaultStatusForcelist == {429, 500, 502, 503, 504}
DefaultAllowedMethods == {"HEAD", "GET", "OPTIONS", "POST"}

Retry(total, status_forcelist, allowed_methods) ==
    [total |-> total,
     status_forcelist |-> status_forcelist,
     allowed_methods |-> allowed_methods,
     raise_on_status |-> TRUE,
     respect_retry_after_header |-> TRUE]

HTTPAdapter(pool_connections, pool_maxsize, retries) ==
    [pool_connections |-> pool_connections,
     pool_maxsize |-> pool_maxsize,
     max_retries |-> retries,
     pool_block |-> FALSE,
     configured |-> TRUE]

\* requests.Session(): HTTPAdapter() on both schemes
BuiltinAdapter ==
    [pool_connections |-> 10,
     pool_maxsize |-> 10,
     max_retries |-> Retry(0, {}, {"HEAD", "GET", "PUT", "DELETE", "OPTIONS", "TRACE"}),
     pool_block |-> FALSE,
     configured |-> FALSE]

NewSession == [p \in {"https://", "http://"} |-> BuiltinAdapter]

\* session.mount(prefix, adapter)
Mount(s, prefix, adapter) == [s EXCEPT ![prefix] = adapter]

\* Session.get_adapter(url): the adapter of the prefix the URL starts with
get_adapter(s, url) ==
    IF StartsWith(url, "https://") THEN s["https://"] ELSE s["http://"]

ConfiguredAdapterBlocking(status_forcelist, allowed_methods) ==
    [HTTPAdapter(http_connection_pool_size, http_connection_pool_size,
                 Retry(max_retries, status_forcelist, allowed_methods))
        EXCEPT !.pool_block = TRUE]

\* the adapter _request_session builds from the client's settings
ConfiguredAdapter(status_forcelist, allowed_methods) ==
    HTTPAdapter(http_connection_pool_size, http_connection_pool_size,
                Retry(max_retries, status_forcelist, allowed_methods))

(***************************************************************************)
(* ApiHttpClient._request_session: the Session reference it returns and    *)
(* the Session objects existing afterwards.                                *)
(***************************************************************************)
RequestSessionAlwaysNew(status_forcelist, allowed_methods) ==
    [session |-> Len(sessions) + 1,
     sessions |-> Append(sessions,
                     Mount(NewSession, "https://",
                           ConfiguredAdapter(status_forcelist, allowed_methods)))]

RequestSessionMountsBoth(status_forcelist, allowed_methods) ==
    IF session = 0
    THEN [session |-> Len(sessions) + 1,
          sessions |-> Append(sessions,
                          Mount(Mount(NewSession, "https://",
                                      ConfiguredAdapter(status_forcelist, allowed_methods)),
                                "http://",
                                ConfiguredAdapter(status_forcelist, allowed_methods)))]
    ELSE [session |-> session, sessions |-> sessions]

RequestSessionRemounts(status_forcelist, allowed_methods) ==
    IF session = 0
    THEN [session |-> Len(sessions) + 1,
          sessions |-> Append(sessions,
                          Mount(NewSession, "https://",
                                ConfiguredAdapter(status_forcelist, allowed_methods)))]
    ELSE [session |-> session,
          sessions |-> [sessions EXCEPT ![session] =
                           Mount(@, "https://",
                                 ConfiguredAdapter(status_forcelist, allowed_methods))]]

_request_session(status_forcelist, allowed_methods) ==
    IF session = 0
    THEN [session |-> Len(sessions) + 1,
          sessions |-> Append(sessions,
                          Mount(NewSession, "https://",
                                ConfiguredAdapter(status_forcelist, allowed_methods)))]
    ELSE [session |-> session, sessions |-> sessions]

(***************************************************************************)
(* JSON bodies the server may answer with.  A JSON string, number, null or *)
(* array is a tagged record; an object is a function from its keys.  Two   *)
(* tagged records are told apart by their tag t before their value v.      *)
(***************************************************************************)
JStr(s) == [t |-> "str", v |-> s]
JList(items) == [t |-> "list", v |-> items]
JFloat(x) == [t |-> "float", v |-> x]
JInt(n) == [t |-> "int", v |-> n]
JNull == [t |-> "null", v |-> None]

BodyCities ==
    [status |-> JStr("OK"),
     data |-> << [id |-> JStr("13101"), name |-> JStr("Chiyoda")],
                 [id |-> JStr("13102"), name |-> JStr("Chuo")] >>]

BodyEmpty == [status |-> JStr("OK"), data |-> << >>]

BodyError == [message |-> "error"]

\* rows of XIT001: numbers arrive as strings, fields without a value as ""
PriceRow1 ==
    [Type |-> JStr("Land"), MunicipalityCode |-> JStr("13101"),
     TradePrice |-> JStr("5000000"), Area |-> JStr("120"),
     Frontage |-> JStr(""), Remarks |-> JStr(" \t"),
     PriceCategory |-> JStr("Transaction")]

PriceRow2 ==
    [Type |-> JStr("Condominium"), TradePrice |-> JInt("300"),
     UnitPrice |-> JFloat("1.5"), Breadth |-> JNull,
     PriceCategory |-> JStr("Contract"), Unknown |-> JStr("")]

PriceRow3 ==
    [type_ |-> JStr("Forest"), Region |-> JStr(" Hills "),
     PricePerUnit |-> JFloat("12.0"), PriceCategory |-> JStr("Transaction")]

BodyPrices == [status |-> JStr("OK"), data |-> << PriceRow1, PriceRow2, PriceRow3 >>]

\* rows TransactionPrice does not accept
PriceRowNoCategory == [Type |-> JStr("Land"), TradePrice |-> JStr("5000000")]
PriceRowBadNumber ==
    [Type |-> JStr("Land"), TradePrice |-> JStr("abc"),
     PriceCategory |-> JStr("Transaction")]
PriceRowBlankType == [Type |-> JStr(" "), PriceCategory |-> JStr("Transaction")]
PriceRowNumberAsStr ==
    [Type |-> JStr("Land"), Region |-> JInt("7"),
     PriceCategory |-> JStr("Transaction")]

\* the three valid rows with the one at position i replaced
BodyPricesWith(row, i) ==
    [status |-> JStr("OK"),
     data |-> [BodyPrices.data EXCEPT ![i] = row]]

BodiesInvalidPrices ==
    { BodyPricesWith(PriceRowNoCategory, i) : i \in 1..3 }
    \cup { BodyPricesWith(PriceRowBadNumber, 2),
           BodyPricesWith(PriceRowBlankType, 3),
           BodyPricesWith(PriceRowNumberAsStr, 1) }

\* one valid row with one of the two required fields empty, blank or null
BodiesBlankRequired ==
    { [status |-> JStr("OK"), data |-> << [PriceRow2 EXCEPT ![f] = x] >>] :
          f \in {"Type", "PriceCategory"}, x \in {JStr(""), JStr(" "), JNull} }

\* features of a tile
ParkProperties ==
    [OBJECTID |-> JInt("1"), PREFEC_CD |-> JStr("13"), REMARK_STR |-> JStr(""),
     Shape_Area |-> JStr("10.5")]

PointFeature ==
    [type |-> "Feature",
     geometry |-> [type |-> "Point",
                   coordinates |-> JList(<< JFloat("139.0"), JFloat("35.0") >>)],
     properties |-> ParkProperties]

PolygonFeature ==
    [type |-> "Feature",
     geometry |-> [type |-> "Polygon",
                   coordinates |->
                       JList(<< JList(<< JList(<< JFloat("139.0"), JFloat("35.0") >>),
                                         JList(<< JFloat("139.5"), JInt("35") >>) >>) >>)],
     properties |-> [PREFEC_CD |-> JStr(" "), OBJECTID |-> JStr("2")]]

\* a Polygon whose coordinates are nested two levels deep
ShallowPolygonFeature ==
    [type |-> "Feature",
     geometry |-> [type |-> "Polygon",
                   coordinates |->
                       JList(<< JList(<< JFloat("139.0"), JFloat("35.0") >>) >>)],
     properties |-> ParkProperties]

NoPropertiesFeature ==
    [type |-> "Feature",
     geometry |-> [type |-> "Point",
                   coordinates |-> JList(<< JFloat("139.0"), JFloat("35.0") >>)]]

NoGeometryFeature == [type |-> "Feature", properties |-> ParkProperties]

BadPropertiesFeature ==
    [type |-> "Feature",
     geometry |-> [type |-> "Point",
                   coordinates |-> JList(<< JFloat("139.0"), JFloat("35.0") >>)],
     properties |-> [OBJECTID |-> JStr("first"), PREFEC_CD |-> JInt("13")]]

FeatureCollection(features) ==
    [type |-> JStr("FeatureCollection"), features |-> features]

\* the same features under other envelopes: none of type, name and crs, or
\* each with a value GeoAPIResponse would not accept
BareEnvelope(features) == [features |-> features]
OddEnvelope(features) ==
    [type |-> JInt("7"), name |-> JStr("tile"), crs |-> JNull, features |-> features]

\* valid rows under a status that is absent, a number, or null
BodiesInvalidStatus ==
    { [data |-> BodyPrices.data],
      [status |-> JInt("200"), data |-> BodyPrices.data],
      [status |-> JNull, data |-> BodyPrices.data] }

BodyGeo == FeatureCollection(<< PointFeature, PolygonFeature >>)

BodiesInvalidGeo ==
    { FeatureCollection(<< PointFeature, ShallowPolygonFeature >>),
      FeatureCollection(<< NoPropertiesFeature, PolygonFeature >>),
      FeatureCollection(<< PointFeature, PolygonFeature, NoGeometryFeature >>),
      FeatureCollection(<< BadPropertiesFeature, PointFeature >>),
      FeatureCollection(<< PointFeature, BadPropertiesFeature >>) }

\* the bodies the transport is exercised with
Bodies == {BodyCities, BodyEmpty, BodyGeo}

\* the bodies the Client methods are exercised with
FacadeBodies ==
    {BodyCities, BodyEmpty, BodyPrices, BodyGeo, FeatureCollection(<< >>),
     BareEnvelope(BodyGeo.features), OddEnvelope(BodyGeo.features)}
    \cup BodiesInvalidPrices \cup BodiesInvalidGeo \cup BodiesInvalidStatus
    \cup BodiesBlankRequired

(***************************************************************************)
(* What the server or the network does with one HTTP attempt.              *)
(***************************************************************************)
Response(status_code, retry_after, json) ==
    [event |-> "response", status_code |-> status_code,
     retry_after |-> retry_after, json |-> json]

NetworkError ==
    [event |-> "network_error", status_code |-> 0,
     retry_after |-> FALSE, json |-> BodyError]

FailureStatuses == {404, 413, 429, 503}

Responses ==
    { Response(200, FALSE, b) : b \in Bodies }
    \cup { Response(s, FALSE, BodyError) : s \in FailureStatuses }
    \cup { Response(413, TRUE, BodyError) }

\* what the Client methods are exercised with: every body, one transient
\* and one permanent failure
FacadeResponses ==
    { Response(200, FALSE, b) : b \in FacadeBodies }
    \cup { Response(s, FALSE, BodyError) : s \in {404, 503} }

StatusCodes(h) == [i \in DOMAIN h |-> h[i].status_code]

(***************************************************************************)
(* urllib3.util.retry.Retry, as configured by _request_session             *)
(***************************************************************************)
RETRY_AFTER_STATUS_CODES == {413, 429, 503}

IsRetryOnRetryAfterOnly(r, method, status_code, has_retry_after) ==
    /\ method \in r.allowed_methods
    /\ r.total # 0
    /\ r.respect_retry_after_header
    /\ has_retry_after
    /\ status_code \in RETRY_AFTER_STATUS_CODES

is_retry(r, method, status_code, has_retry_after) ==
    /\ method \in r.allowed_methods
    /\ \/ status_code \in r.status_forcelist
       \/ /\ r.total # 0
          /\ r.respect_retry_after_header
          /\ has_retry_after
          /\ status_code \in RETRY_AFTER_STATUS_CODES

increment(r) == [r EXCEPT !.total = @ - 1]

IsExhaustedOneLate(r) == r.total < -1

is_exhausted(r) == r.total < 0

(***************************************************************************)
(* Response.raise_for_status                                               *)
(***************************************************************************)
raise_for_status(status_code) == status_code >= 400 /\ status_code < 600

(***************************************************************************)
(* Outcomes of get_json.                                                   *)
(***************************************************************************)
NoOutcome == [kind |-> "none", response |-> << >>, value |-> << >>]
Returned(r) == [kind |-> "returned", response |-> << r >>, value |-> << r.json >>]
HTTPError(r) == [kind |-> "HTTPError", response |-> << r >>, value |-> << >>]
RetryError == [kind |-> "RetryError", response |-> << >>, value |-> << >>]
ConnectionError == [kind |-> "ConnectionError", response |-> << >>, value |-> << >>]

NoCall == [via |-> "", request_path |-> "", params |-> NoneDict, options |-> NoneDict]
NoReq == [url |-> "", params |-> NoneDict, headers |-> << >>,
          timeout |-> 0, session |-> 0]
NoRetry == Retry(0, {}, {})

(***************************************************************************)
(* pydantic field validation.  A JSON value is a tagged record (JStr,      *)
(* JInt, JFloat, JNull, JList); numbers are kept as their decimal          *)
(* literals.  Coerce gives what pydantic makes of a value for a declared   *)
(* type in its default (lax) mode: whether it validates, and the value of  *)
(* the field.                                                              *)
(***************************************************************************)
Whitespace == {" ", "\t", "\n", "\r"}
Digits == {"0", "1", "2", "3", "4", "5", "6", "7", "8", "9"}

\* v.strip() == ""
IsBlank(v) == \A i \in 1..Len(v) : SubSeq(v, i, i) \in Whitespace

\* s.strip()
RECURSIVE Strip(_)
Strip(s) ==
    IF Len(s) = 0 THEN s
    ELSE IF SubSeq(s, 1, 1) \in Whitespace THEN Strip(SubSeq(s, 2, Len(s)))
    ELSE IF SubSeq(s, Len(s), Len(s)) \in Whitespace THEN Strip(SubSeq(s, 1, Len(s) - 1))
    ELSE s

IsDigits(s) == Len(s) > 0 /\ \A i \in 1..Len(s) : SubSeq(s, i, i) \in Digits

IsIntLiteral(s) ==
    \/ IsDigits(s)
    \/ Len(s) > 1 /\ SubSeq(s, 1, 1) = "-" /\ IsDigits(SubSeq(s, 2, Len(s)))

\* the position of the decimal point of a literal such as "139.0", else 0
PointOf(s) ==
    IF \E i \in 2..(Len(s) - 1) :
           /\ SubSeq(s, i, i) = "."
           /\ IsIntLiteral(SubSeq(s, 1, i - 1))
           /\ IsDigits(SubSeq(s, i + 1, Len(s)))
    THEN CHOOSE i \in 2..(Len(s) - 1) :
           /\ SubSeq(s, i, i) = "."
           /\ IsIntLiteral(SubSeq(s, 1, i - 1))
           /\ IsDigits(SubSeq(s, i + 1, Len(s)))
    ELSE 0

IsFloatLiteral(s) == PointOf(s) # 0

\* a float literal with nothing but zeros after the point: 12.0, 12.00
IsWholeFloat(s) ==
    /\ IsFloatLiteral(s)
    /\ \A i \in (PointOf(s) + 1)..Len(s) : SubSeq(s, i, i) = "0"

Valid(v) == [ok |-> TRUE, value |-> v]
Invalid == [ok |-> FALSE, value |-> JNull]

Coerce(type, v) ==
    CASE type = "str" ->
            IF v.t = "str" THEN Valid(v) ELSE Invalid
      [] type = "int" ->
            IF v.t = "int" THEN Valid(v)
            ELSE IF v.t = "float" /\ IsWholeFloat(v.v)
                 THEN Valid(JInt(SubSeq(v.v, 1, PointOf(v.v) - 1)))
            ELSE IF v.t = "str" /\ IsIntLiteral(Strip(v.v))
                 THEN Valid(JInt(Strip(v.v)))
            ELSE IF v.t = "str" /\ IsWholeFloat(Strip(v.v))
                 THEN Valid(JInt(SubSeq(Strip(v.v), 1, PointOf(Strip(v.v)) - 1)))
            ELSE Invalid
      [] type = "float" ->
            IF v.t = "float" THEN Valid(v)
            ELSE IF v.t = "int" THEN Valid(JFloat(v.v \o ".0"))
            ELSE IF v.t = "str" /\ IsFloatLiteral(Strip(v.v))
                 THEN Valid(JFloat(Strip(v.v)))
            ELSE IF v.t = "str" /\ IsIntLiteral(Strip(v.v))
                 THEN Valid(JFloat(Strip(v.v) \o ".0"))
            ELSE Invalid
      [] OTHER -> Invalid

(***************************************************************************)
(* ReinfoBaseModel and the record classes.  A field is looked up in the    *)
(* input by its alias, then (populate_by_name) by its name; a value that   *)
(* is present passes through empty_str_to_none and is then validated       *)
(* against the declared type; a field that is absent takes its default,    *)
(* None, unless it is required.  Keys that belong to no field are ignored. *)
(* Names and aliases written in Japanese in the source appear here with    *)
(* each character as u followed by its code point.                         *)
(***************************************************************************)
EmptyStrKept(v) == v

empty_str_to_none(v) == IF v.t = "str" /\ IsBlank(v.v) THEN JNull ELSE v

\* the fields of each class in the order of their declaration, each as
\* << name, alias (the name when no alias is declared), type, required >>

ModelFields == [
    TransactionPrice |-> <<
        << "type_", "Type", "str", TRUE >>,
        << "region", "Region", "str", FALSE >>,
        << "municipality_code", "MunicipalityCode", "str", FALSE >>,
        << "prefecture", "Prefecture", "str", FALSE >>,
        << "municipality", "Municipality", "str", FALSE >>,
        << "district_name", "DistrictName", "str", FALSE >>,
        << "trade_price", "TradePrice", "int", FALSE >>,
        << "price_per_unit", "PricePerUnit", "int", FALSE >>,
        << "floor_plan", "FloorPlan", "str", FALSE >>,
        << "area", "Area", "float", FALSE >>,
        << "unit_price", "UnitPrice", "float", FALSE >>,
        << "land_shape", "LandShape", "str", FALSE >>,
        << "frontage", "Frontage", "float", FALSE >>,
        << "total_floor_area", "TotalFloorArea", "float", FALSE >>,
        << "building_year", "BuildingYear", "str", FALSE >>,
        << "structure", "Structure", "str", FALSE >>,
        << "use", "Use", "str", FALSE >>,
        << "purpose", "Purpose", "str", FALSE >>,
        << "direction", "Direction", "str", FALSE >>,
        << "classification", "Classification", "str", FALSE >>,
        << "breadth", "Breadth", "float", FALSE >>,
        << "city_planning", "CityPlanning", "str", FALSE >>,
        << "coverage_ratio", "CoverageRatio", "float", FALSE >>,
        << "floor_area_ratio", "FloorAreaRatio", "float", FALSE >>,
        << "period", "Period", "str", FALSE >>,
        << "renovation", "Renovation", "str", FALSE >>,
        << "remarks", "Remarks", "str", FALSE >>,
        << "price_category", "PriceCategory", "str", TRUE >>
    >>,
    AppraisalReport |-> <<
        << "u4FA1u683Cu6642u70B9", "u4FA1u683Cu6642u70B9", "str", FALSE >>,
        << "u6A19u6E96u5730u756Au53F7_u5E02u533Au753Au6751u30B3u30FCu30C9_u770Cu30B3u30FCu30C9", "u6A19u6E96u5730u756Au53F7 u5E02u533Au753Au6751u30B3u30FCu30C9 u770Cu30B3u30FCu30C9", "str", FALSE >>,
        << "u6A19u6E96u5730u756Au53F7_u5E02u533Au753Au6751u30B3u30FCu30C9_u5E02u533Au753Au6751u30B3u30FCu30C9", "u6A19u6E96u5730u756Au53F7 u5E02u533Au753Au6751u30B3u30FCu30C9 u5E02u533Au753Au6751u30B3u30FCu30C9", "str", FALSE >>,
        << "u6A19u6E96u5730u756Au53F7_u5730u57DFu540D", "u6A19u6E96u5730u756Au53F7 u5730u57DFu540D", "str", FALSE >>,
        << "u6A19u6E96u5730u756Au53F7_u7528u9014u533Au5206", "u6A19u6E96u5730u756Au53F7 u7528u9014u533Au5206", "str", FALSE >>,
        << "u6A19u6E96u5730u756Au53F7_u9023u756A", "u6A19u6E96u5730u756Au53F7 u9023u756A", "str", FALSE >>,
        << "u4E00u5E73u7C73u5F53u305Fu308Au306Eu4FA1u683C", "1u33A1u5F53u305Fu308Au306Eu4FA1u683C", "float", FALSE >>,
        << "u8DEFu7DDAu4FA1_u5E74", "u8DEFu7DDAu4FA1 u5E74", "int", FALSE >>,
        << "u8DEFu7DDAu4FA1_u76F8u7D9Au7A0Eu8DEFu7DDAu4FA1", "u8DEFu7DDAu4FA1 u76F8u7D9Au7A0Eu8DEFu7DDAu4FA1", "float", FALSE >>,
        << "u8DEFu7DDAu4FA1_u500Du7387", "u8DEFu7DDAu4FA1 u500Du7387", "float", FALSE >>,
        << "u8DEFu7DDAu4FA1_u500Du7387u7A2Eu5225", "u8DEFu7DDAu4FA1 u500Du7387u7A2Eu5225", "str", FALSE >>,
        << "u6A19u6E96u5730_u6240u5728u5730_u6240u5728u5730u756A", "u6A19u6E96u5730 u6240u5728u5730 u6240u5728u5730u756A", "str", FALSE >>,
        << "u6A19u6E96u5730_u6240u5728u5730_u4F4Fu5C45u8868u793A", "u6A19u6E96u5730 u6240u5728u5730 u4F4Fu5C45u8868u793A", "str", FALSE >>,
        << "u6A19u6E96u5730_u6240u5728u5730_u4EEEu63DBu5730u756Au53F7", "u6A19u6E96u5730 u6240u5728u5730 u4EEEu63DBu5730u756Au53F7", "str", FALSE >>,
        << "u6A19u6E96u5730_u5730u7A4D_u5730u7A4D", "u6A19u6E96u5730 u5730u7A4D u5730u7A4D", "float", FALSE >>,
        << "u6A19u6E96u5730_u5730u7A4D_u5185u79C1u9053u5206", "u6A19u6E96u5730 u5730u7A4D u5185u79C1u9053u5206", "float", FALSE >>,
        << "u6A19u6E96u5730_u5F62u72B6_u5F62u72B6", "u6A19u6E96u5730 u5F62u72B6 u5F62u72B6", "str", FALSE >>,
        << "u6A19u6E96u5730_u5F62u72B6_u5F62u72B6u6BD4_u9593u53E3", "u6A19u6E96u5730 u5F62u72B6 u5F62u72B6u6BD4 u9593u53E3", "float", FALSE >>,
        << "u6A19u6E96u5730_u5F62u72B6_u5F62u72B6u6BD4_u5965u884C", "u6A19u6E96u5730 u5F62u72B6 u5F62u72B6u6BD4 u5965u884C", "float", FALSE >>,
        << "u6A19u6E96u5730_u5F62u72B6_u65B9u4F4D", "u6A19u6E96u5730 u5F62u72B6 u65B9u4F4D", "str", FALSE >>,
        << "u6A19u6E96u5730_u5F62u72B6_u5E73u5766", "u6A19u6E96u5730 u5F62u72B6 u5E73u5766", "str", FALSE >>,
        << "u6A19u6E96u5730_u5F62u72B6_u50BEu659Cu5EA6", "u6A19u6E96u5730 u5F62u72B6 u50BEu659Cu5EA6", "float", FALSE >>,
        << "u6A19u6E96u5730_u571Fu5730u5229u7528u306Eu73FEu6CC1_u73FEu6CC1", "u6A19u6E96u5730 u571Fu5730u5229u7528u306Eu73FEu6CC1 u73FEu6CC1", "str", FALSE >>,
        << "u6A19u6E96u5730_u571Fu5730u5229u7528u306Eu73FEu6CC1_u69CBu9020", "u6A19u6E96u5730 u571Fu5730u5229u7528u306Eu73FEu6CC1 u69CBu9020", "str", FALSE >>,
        << "u6A19u6E96u5730_u571Fu5730u5229u7528u306Eu73FEu6CC1_u5730u4E0Au968Eu6570", "u6A19u6E96u5730 u571Fu5730u5229u7528u306Eu73FEu6CC1 u5730u4E0Au968Eu6570", "int", FALSE >>,
        << "u6A19u6E96u5730_u571Fu5730u5229u7528u306Eu73FEu6CC1_u5730u4E0Bu968Eu6570", "u6A19u6E96u5730 u571Fu5730u5229u7528u306Eu73FEu6CC1 u5730u4E0Bu968Eu6570", "int", FALSE >>,
        << "u6A19u6E96u5730_u5468u8FBAu306Eu5229u7528u72B6u6CC1", "u6A19u6E96u5730 u5468u8FBAu306Eu5229u7528u72B6u6CC1", "str", FALSE >>,
        << "u6A19u6E96u5730_u63A5u9762u9053u8DEFu306Eu72B6u6CC1_u524Du9762u9053u8DEF_u65B9u4F4D", "u6A19u6E96u5730 u63A5u9762u9053u8DEFu306Eu72B6u6CC1 u524Du9762u9053u8DEF u65B9u4F4D", "str", FALSE >>,
        << "u6A19u6E96u5730_u63A5u9762u9053u8DEFu306Eu72B6u6CC1_u524Du9762u9053u8DEF_u99C5u524Du533Au5206", "u6A19u6E96u5730 u63A5u9762u9053u8DEFu306Eu72B6u6CC1 u524Du9762u9053u8DEF u99C5u524Du533Au5206", "str", FALSE >>,
        << "u6A19u6E96u5730_u63A5u9762u9053u8DEFu306Eu72B6u6CC1_u524Du9762u9053u8DEF_u9AD8u4F4Eu4F4Du7F6E", "u6A19u6E96u5730 u63A5u9762u9053u8DEFu306Eu72B6u6CC1 u524Du9762u9053u8DEF u9AD8u4F4Eu4F4Du7F6E", "str", FALSE >>,
        << "u6A19u6E96u5730_u63A5u9762u9053u8DEFu306Eu72B6u6CC1_u524Du9762u9053u8DEF_u9053u8DEFu5E45u54E1", "u6A19u6E96u5730 u63A5u9762u9053u8DEFu306Eu72B6u6CC1 u524Du9762u9053u8DEF u9053u8DEFu5E45u54E1", "float", FALSE >>,
        << "u6A19u6E96u5730_u63A5u9762u9053u8DEFu306Eu72B6u6CC1_u524Du9762u9053u8DEF_u8217u88C5u72B6u6CC1", "u6A19u6E96u5730 u63A5u9762u9053u8DEFu306Eu72B6u6CC1 u524Du9762u9053u8DEF u8217u88C5u72B6u6CC1", "str", FALSE >>,
        << "u6A19u6E96u5730_u63A5u9762u9053u8DEFu306Eu72B6u6CC1_u524Du9762u9053u8DEF_u9053u8DEFu7A2Eu5225", "u6A19u6E96u5730 u63A5u9762u9053u8DEFu306Eu72B6u6CC1 u524Du9762u9053u8DEF u9053u8DEFu7A2Eu5225", "str", FALSE >>,
        << "u6A19u6E96u5730_u63A5u9762u9053u8DEFu306Eu72B6u6CC1_u5074u9053u65B9u4F4D", "u6A19u6E96u5730 u63A5u9762u9053u8DEFu306Eu72B6u6CC1 u5074u9053u65B9u4F4D", "str", FALSE >>,
        << "u6A19u6E96u5730_u63A5u9762u9053u8DEFu306Eu72B6u6CC1_u5074u9053u7B49u63A5u9762u72B6u6CC1", "u6A19u6E96u5730 u63A5u9762u9053u8DEFu306Eu72B6u6CC1 u5074u9053u7B49u63A5u9762u72B6u6CC1", "str", FALSE >>,
        << "u6A19u6E96u5730_u4F9Bu7D66u51E6u7406u65BDu8A2D_u6C34u9053", "u6A19u6E96u5730 u4F9Bu7D66u51E6u7406u65BDu8A2D u6C34u9053", "int", FALSE >>,
        << "u6A19u6E96u5730_u4F9Bu7D66u51E6u7406u65BDu8A2D_u30ACu30B9", "u6A19u6E96u5730 u4F9Bu7D66u51E6u7406u65BDu8A2D u30ACu30B9", "int", FALSE >>,
        << "u6A19u6E96u5730_u4F9Bu7D66u51E6u7406u65BDu8A2D_u4E0Bu6C34u9053", "u6A19u6E96u5730 u4F9Bu7D66u51E6u7406u65BDu8A2D u4E0Bu6C34u9053", "int", FALSE >>,
        << "u6A19u6E96u5730_u4EA4u901Au65BDu8A2Du306Eu72B6u6CC1_u4EA4u901Au65BDu8A2D", "u6A19u6E96u5730 u4EA4u901Au65BDu8A2Du306Eu72B6u6CC1 u4EA4u901Au65BDu8A2D", "str", FALSE >>,
        << "u6A19u6E96u5730_u4EA4u901Au65BDu8A2Du306Eu72B6u6CC1_u8DDDu96E2", "u6A19u6E96u5730 u4EA4u901Au65BDu8A2Du306Eu72B6u6CC1 u8DDDu96E2", "float", FALSE >>,
        << "u6A19u6E96u5730_u4EA4u901Au65BDu8A2Du306Eu72B6u6CC1_u8FD1u63A5u533Au5206", "u6A19u6E96u5730 u4EA4u901Au65BDu8A2Du306Eu72B6u6CC1 u8FD1u63A5u533Au5206", "str", FALSE >>,
        << "u6A19u6E96u5730_u6CD5u4EE4u4E0Au306Eu898Fu5236u7B49_u533Au57DFu533Au5206", "u6A19u6E96u5730 u6CD5u4EE4u4E0Au306Eu898Fu5236u7B49 u533Au57DFu533Au5206", "str", FALSE >>,
        << "u6A19u6E96u5730_u6CD5u4EE4u4E0Au306Eu898Fu5236u7B49_u7528u9014u5730u57DF", "u6A19u6E96u5730 u6CD5u4EE4u4E0Au306Eu898Fu5236u7B49 u7528u9014u5730u57DF", "str", FALSE >>,
        << "u6A19u6E96u5730_u6CD5u4EE4u4E0Au306Eu898Fu5236u7B49_u6307u5B9Au5EFAu307Au3044u7387", "u6A19u6E96u5730 u6CD5u4EE4u4E0Au306Eu898Fu5236u7B49 u6307u5B9Au5EFAu307Au3044u7387", "int", FALSE >>,
        << "u6A19u6E96u5730_u6CD5u4EE4u4E0Au306Eu898Fu5236u7B49_u6307u5B9Au5BB9u7A4Du7387", "u6A19u6E96u5730 u6CD5u4EE4u4E0Au306Eu898Fu5236u7B49 u6307u5B9Au5BB9u7A4Du7387", "int", FALSE >>,
        << "u6A19u6E96u5730_u6CD5u4EE4u4E0Au306Eu898Fu5236u7B49_u9632u706Bu5730u57DF", "u6A19u6E96u5730 u6CD5u4EE4u4E0Au306Eu898Fu5236u7B49 u9632u706Bu5730u57DF", "str", FALSE >>,
        << "u6A19u6E96u5730_u6CD5u4EE4u4E0Au306Eu898Fu5236u7B49_u68EEu6797u6CD5", "u6A19u6E96u5730 u6CD5u4EE4u4E0Au306Eu898Fu5236u7B49 u68EEu6797u6CD5", "str", FALSE >>,
        << "u6A19u6E96u5730_u6CD5u4EE4u4E0Au306Eu898Fu5236u7B49_u81EAu7136u516Cu5712u6CD5", "u6A19u6E96u5730 u6CD5u4EE4u4E0Au306Eu898Fu5236u7B49 u81EAu7136u516Cu5712u6CD5", "str", FALSE >>,
        << "u6A19u6E96u5730_u6CD5u4EE4u4E0Au306Eu898Fu5236u7B49_u305Du306Eu4ED6u5730u57DFu5730u533Au7B491", "u6A19u6E96u5730 u6CD5u4EE4u4E0Au306Eu898Fu5236u7B49 u305Du306Eu4ED6 u305Du306Eu4ED6u5730u57DFu5730u533Au7B491", "str", FALSE >>,
        << "u6A19u6E96u5730_u6CD5u4EE4u4E0Au306Eu898Fu5236u7B49_u305Du306Eu4ED6u5730u57DFu5730u533Au7B492", "u6A19u6E96u5730 u6CD5u4EE4u4E0Au306Eu898Fu5236u7B49 u305Du306Eu4ED6 u305Du306Eu4ED6u5730u57DFu5730u533Au7B492", "str", FALSE >>,
        << "u6A19u6E96u5730_u6CD5u4EE4u4E0Au306Eu898Fu5236u7B49_u305Du306Eu4ED6u5730u57DFu5730u533Au7B493", "u6A19u6E96u5730 u6CD5u4EE4u4E0Au306Eu898Fu5236u7B49 u305Du306Eu4ED6 u305Du306Eu4ED6u5730u57DFu5730u533Au7B493", "str", FALSE >>,
        << "u6A19u6E96u5730_u6CD5u4EE4u4E0Au306Eu898Fu5236u7B49_u9AD8u5EA6u5730u533A1_u7A2E", "u6A19u6E96u5730 u6CD5u4EE4u4E0Au306Eu898Fu5236u7B49 u305Du306Eu4ED6 u9AD8u5EA6u5730u533A1 u7A2E", "str", FALSE >>,
        << "u6A19u6E96u5730_u6CD5u4EE4u4E0Au306Eu898Fu5236u7B49_u9AD8u5EA6u5730u533A1_u9AD8u5EA6u533Au5206", "u6A19u6E96u5730 u6CD5u4EE4u4E0Au306Eu898Fu5236u7B49 u305Du306Eu4ED6 u9AD8u5EA6u5730u533A1 u9AD8u5EA6u533Au5206", "str", FALSE >>,
        << "u6A19u6E96u5730_u6CD5u4EE4u4E0Au306Eu898Fu5236u7B49_u9AD8u5EA6u5730u533A1_u9AD8u5EA6", "u6A19u6E96u5730 u6CD5u4EE4u4E0Au306Eu898Fu5236u7B49 u305Du306Eu4ED6 u9AD8u5EA6u5730u533A1 u9AD8u5EA6", "float", FALSE >>,
        << "u6A19u6E96u5730_u6CD5u4EE4u4E0Au306Eu898Fu5236u7B49_u9AD8u5EA6u5730u533A2_u7A2E", "u6A19u6E96u5730 u6CD5u4EE4u4E0Au306Eu898Fu5236u7B49 u305Du306Eu4ED6 u9AD8u5EA6u5730u533A2 u7A2E", "str", FALSE >>,
        << "u6A19u6E96u5730_u6CD5u4EE4u4E0Au306Eu898Fu5236u7B49_u9AD8u5EA6u5730u533A2_u9AD8u5EA6u533Au5206", "u6A19u6E96u5730 u6CD5u4EE4u4E0Au306Eu898Fu5236u7B49 u305Du306Eu4ED6 u9AD8u5EA6u5730u533A2 u9AD8u5EA6u533Au5206", "str", FALSE >>,
        << "u6A19u6E96u5730_u6CD5u4EE4u4E0Au306Eu898Fu5236u7B49_u9AD8u5EA6u5730u533A2_u9AD8u5EA6", "u6A19u6E96u5730 u6CD5u4EE4u4E0Au306Eu898Fu5236u7B49 u305Du306Eu4ED6 u9AD8u5EA6u5730u533A2 u9AD8u5EA6", "float", FALSE >>,
        << "u6A19u6E96u5730_u6CD5u4EE4u4E0Au306Eu898Fu5236u7B49_u57FAu6E96u5EFAu307Au3044u7387", "u6A19u6E96u5730 u6CD5u4EE4u4E0Au306Eu898Fu5236u7B49 u57FAu6E96u5EFAu307Au3044u7387", "int", FALSE >>,
        << "u6A19u6E96u5730_u6CD5u4EE4u4E0Au306Eu898Fu5236u7B49_u57FAu6E96u5BB9u7A4Du7387", "u6A19u6E96u5730 u6CD5u4EE4u4E0Au306Eu898Fu5236u7B49 u57FAu6E96u5BB9u7A4Du7387", "int", FALSE >>,
        << "u6A19u6E96u5730_u6CD5u4EE4u4E0Au306Eu898Fu5236u7B49_u81EAu7136u74B0u5883u7B49u30B3u30FCu30C91", "u6A19u6E96u5730 u6CD5u4EE4u4E0Au306Eu898Fu5236u7B49 u81EAu7136u74B0u5883u7B49u30B3u30FCu30C91", "str", FALSE >>,
        << "u6A19u6E96u5730_u6CD5u4EE4u4E0Au306Eu898Fu5236u7B49_u81EAu7136u74B0u5883u7B49u30B3u30FCu30C92", "u6A19u6E96u5730 u6CD5u4EE4u4E0Au306Eu898Fu5236u7B49 u81EAu7136u74B0u5883u7B49u30B3u30FCu30C92", "str", FALSE >>,
        << "u6A19u6E96u5730_u6CD5u4EE4u4E0Au306Eu898Fu5236u7B49_u81EAu7136u74B0u5883u7B49u30B3u30FCu30C93", "u6A19u6E96u5730 u6CD5u4EE4u4E0Au306Eu898Fu5236u7B49 u81EAu7136u74B0u5883u7B49u30B3u30FCu30C93", "str", FALSE >>,
        << "u6A19u6E96u5730_u6CD5u4EE4u4E0Au306Eu898Fu5236u7B49_u81EAu7136u74B0u5883u7B49u6587u8A00", "u6A19u6E96u5730 u6CD5u4EE4u4E0Au306Eu898Fu5236u7B49 u81EAu7136u74B0u5883u7B49u6587u8A00", "str", FALSE >>,
        << "u9451u5B9Au8A55u4FA1u624Bu6CD5_u9069u7528u53D6u5F15u4E8Bu4F8Bu6BD4u8F03u6CD5_u6BD4u6E96u4FA1u683C", "u9451u5B9Au8A55u4FA1u624Bu6CD5u306Eu9069u7528 u53D6u5F15u4E8Bu4F8Bu6BD4u8F03u6CD5u6BD4u6E96u4FA1u683C", "float", FALSE >>,
        << "u9451u5B9Au8A55u4FA1u624Bu6CD5_u9069u7528u63A7u9664u6CD5_u63A7u9664u5F8Cu4FA1u683C", "u9451u5B9Au8A55u4FA1u624Bu6CD5u306Eu9069u7528 u63A7u9664u6CD5 u63A7u9664u5F8Cu4FA1u683C", "float", FALSE >>,
        << "u9451u5B9Au8A55u4FA1u624Bu6CD5_u9069u7528u53CEu76CAu9084u5143u6CD5_u53CEu76CAu4FA1u683C", "u9451u5B9Au8A55u4FA1u624Bu6CD5u306Eu9069u7528 u53CEu76CAu9084u5143u6CD5 u53CEu76CAu4FA1u683C", "float", FALSE >>,
        << "u9451u5B9Au8A55u4FA1u624Bu6CD5_u9069u7528u539Fu4FA1u6CD5_u7A4Du7B97u4FA1u683C", "u9451u5B9Au8A55u4FA1u624Bu6CD5u306Eu9069u7528 u539Fu4FA1u6CD5 u7A4Du7B97u4FA1u683C", "float", FALSE >>,
        << "u9451u5B9Au8A55u4FA1u624Bu6CD5_u9069u7528u958Bu767Au6CD5_u4FA1u683C", "u9451u5B9Au8A55u4FA1u624Bu6CD5u306Eu9069u7528 u958Bu767Au6CD5 u958Bu767Au6CD5u306Bu3088u308Bu4FA1u683C", "float", FALSE >>,
        << "u516Cu793Au4FA1u683C", "u516Cu793Au4FA1u683C", "float", FALSE >>,
        << "u5909u52D5u7387", "u5909u52D5u7387", "float", FALSE >>,
        << "u7DEFu5EA6", "u4F4Du7F6Eu5EA7u6A19 u7DEFu5EA6", "float", FALSE >>,
        << "u7D4Cu5EA6", "u4F4Du7F6Eu5EA7u6A19 u7D4Cu5EA6", "float", FALSE >>
    >>,
    Municipality |-> <<
        << "id", "id", "str", TRUE >>,
        << "name", "name", "str", TRUE >>
    >>,
    TransactionPriceGeo |-> <<
        << "point_in_time_name_ja", "point_in_time_name_ja", "str", FALSE >>,
        << "price_information_category_name_ja", "price_information_category_name_ja", "str", FALSE >>,
        << "prefecture_name_ja", "prefecture_name_ja", "str", FALSE >>,
        << "city_code", "city_code", "str", FALSE >>,
        << "city_name_ja", "city_name_ja", "str", FALSE >>,
        << "district_code", "district_code", "str", FALSE >>,
        << "district_name_ja", "district_name_ja", "str", FALSE >>,
        << "transaction_contents_name_ja", "transaction_contents_name_ja", "str", FALSE >>,
        << "u_transaction_price_total_ja", "u_transaction_price_total_ja", "str", FALSE >>,
        << "u_transaction_price_unit_price_square_meter_ja", "u_transaction_price_unit_price_square_meter_ja", "str", FALSE >>,
        << "u_unit_price_per_tsubo_ja", "u_unit_price_per_tsubo_ja", "str", FALSE >>,
        << "u_area_ja", "u_area_ja", "str", FALSE >>,
        << "land_shape_name_ja", "land_shape_name_ja", "str", FALSE >>,
        << "u_land_frontage_ja", "u_land_frontage_ja", "str", FALSE >>,
        << "building_structure_name_ja", "building_structure_name_ja", "str", FALSE >>,
        << "floor_plan_name_ja", "floor_plan_name_ja", "str", FALSE >>,
        << "u_building_total_floor_area_ja", "u_building_total_floor_area_ja", "str", FALSE >>,
        << "u_construction_year_ja", "u_construction_year_ja", "str", FALSE >>,
        << "front_road_azimuth_name_ja", "front_road_azimuth_name_ja", "str", FALSE >>,
        << "u_front_road_width_ja", "u_front_road_width_ja", "str", FALSE >>,
        << "front_road_type_name_ja", "front_road_type_name_ja", "str", FALSE >>,
        << "land_use_name_ja", "land_use_name_ja", "str", FALSE >>,
        << "u_building_coverage_ratio_ja", "u_building_coverage_ratio_ja", "str", FALSE >>,
        << "u_floor_area_ratio_ja", "u_floor_area_ratio_ja", "str", FALSE >>,
        << "future_use_purpose_name_ja", "future_use_purpose_name_ja", "str", FALSE >>,
        << "remark_renovation_name_ja", "remark_renovation_name_ja", "str", FALSE >>
    >>,
    LandValuationGeo |-> <<
        << "point_id", "point_id", "int", FALSE >>,
        << "target_year_name_ja", "target_year_name_ja", "str", FALSE >>,
        << "land_price_type", "land_price_type", "int", FALSE >>,
        << "duplication_flag", "duplication_flag", "str", FALSE >>,
        << "prefecture_code", "prefecture_code", "str", FALSE >>,
        << "prefecture_name_ja", "prefecture_name_ja", "str", FALSE >>,
        << "city_code", "city_code", "str", FALSE >>,
        << "use_category_name_ja", "use_category_name_ja", "str", FALSE >>,
        << "standard_lot_number_ja", "standard_lot_number_ja", "str", FALSE >>,
        << "city_county_name_ja", "city_county_name_ja", "str", FALSE >>,
        << "ward_town_village_name_ja", "ward_town_village_name_ja", "str", FALSE >>,
        << "place_name_ja", "place_name_ja", "str", FALSE >>,
        << "residence_display_name_ja", "residence_display_name_ja", "str", FALSE >>,
        << "location_number_ja", "location_number_ja", "str", FALSE >>,
        << "u_current_years_price_ja", "u_current_years_price_ja", "str", FALSE >>,
        << "last_years_price", "last_years_price", "int", FALSE >>,
        << "year_on_year_change_rate", "year_on_year_change_rate", "float", FALSE >>,
        << "u_cadastral_ja", "u_cadastral_ja", "str", FALSE >>,
        << "frontage_ratio", "frontage_ratio", "float", FALSE >>,
        << "depth_ratio", "depth_ratio", "float", FALSE >>,
        << "building_structure_name_ja", "building_structure_name_ja", "str", FALSE >>,
        << "u_ground_hierarchy_ja", "u_ground_hierarchy_ja", "str", FALSE >>,
        << "u_underground_hierarchy_ja", "u_underground_hierarchy_ja", "str", FALSE >>,
        << "front_road_name_ja", "front_road_name_ja", "str", FALSE >>,
        << "front_road_azimuth_name_ja", "front_road_azimuth_name_ja", "str", FALSE >>,
        << "front_road_width", "front_road_width", "float", FALSE >>,
        << "front_road_pavement_condition", "front_road_pavement_condition", "str", FALSE >>,
        << "side_road_azimuth_name_ja", "side_road_azimuth_name_ja", "str", FALSE >>,
        << "side_road_name_ja", "side_road_name_ja", "str", FALSE >>,
        << "gas_supply_availability", "gas_supply_availability", "str", FALSE >>,
        << "water_supply_availability", "water_supply_availability", "str", FALSE >>,
        << "sewer_supply_availability", "sewer_supply_availability", "str", FALSE >>,
        << "nearest_station_name_ja", "nearest_station_name_ja", "str", FALSE >>,
        << "proximity_to_transportation_facilities", "proximity_to_transportation_facilities", "str", FALSE >>,
        << "u_road_distance_to_nearest_station_name_ja", "u_road_distance_to_nearest_station_name_ja", "str", FALSE >>,
        << "usage_status_name_ja", "usage_status_name_ja", "str", FALSE >>,
        << "current_usage_status_of_surrounding_land_name_ja", "current_usage_status_of_surrounding_land_name_ja", "str", FALSE >>,
        << "area_division_name_ja", "area_division_name_ja", "str", FALSE >>,
        << "regulations_use_category_name_ja", "regulations_use_category_name_ja", "str", FALSE >>,
        << "regulations_altitude_district_name_ja", "regulations_altitude_district_name_ja", "str", FALSE >>,
        << "regulations_fireproof_name_ja", "regulations_fireproof_name_ja", "str", FALSE >>,
        << "u_regulations_building_coverage_ratio_ja", "u_regulations_building_coverage_ratio_ja", "str", FALSE >>,
        << "u_regulations_floor_area_ratio_ja", "u_regulations_floor_area_ratio_ja", "str", FALSE >>,
        << "regulations_forest_law_name_ja", "regulations_forest_law_name_ja", "str", FALSE >>,
        << "regulations_park_law_name_ja", "regulations_park_law_name_ja", "str", FALSE >>,
        << "pause_flag", "pause_flag", "int", FALSE >>,
        << "usage_category_name_ja", "usage_category_name_ja", "str", FALSE >>,
        << "location", "location", "str", FALSE >>,
        << "shape", "shape", "str", FALSE >>,
        << "front_road_condition", "front_road_condition", "str", FALSE >>,
        << "side_road_condition", "side_road_condition", "str", FALSE >>,
        << "park_forest_law", "park_forest_law", "str", FALSE >>
    >>,
    UrbanPlanningZoneGIS |-> <<
        << "prefecture", "prefecture", "str", FALSE >>,
        << "city_code", "city_code", "str", FALSE >>,
        << "city_name", "city_name", "str", FALSE >>,
        << "kubun_id", "kubun_id", "int", FALSE >>,
        << "decision_date", "decision_date", "str", FALSE >>,
        << "decision_classification", "decision_classification", "str", FALSE >>,
        << "decision_maker", "decision_maker", "str", FALSE >>,
        << "notice_number", "notice_number", "str", FALSE >>,
        << "area_classification_ja", "area_classification_ja", "str", FALSE >>,
        << "first_decision_date", "first_decision_date", "str", FALSE >>,
        << "notice_number_s", "notice_number_s", "str", FALSE >>
    >>,
    UrbanPlanningUseDistrictGIS |-> <<
        << "youto_id", "youto_id", "int", FALSE >>,
        << "prefecture", "prefecture", "str", FALSE >>,
        << "city_code", "city_code", "str", FALSE >>,
        << "city_name", "city_name", "str", FALSE >>,
        << "decision_date", "decision_date", "str", FALSE >>,
        << "decision_classification", "decision_classification", "str", FALSE >>,
        << "decision_maker", "decision_maker", "str", FALSE >>,
        << "notice_number", "notice_number", "str", FALSE >>,
        << "use_area_ja", "use_area_ja", "str", FALSE >>,
        << "u_floor_area_ratio_ja", "u_floor_area_ratio_ja", "str", FALSE >>,
        << "u_building_coverage_ratio_ja", "u_building_coverage_ratio_ja", "str", FALSE >>,
        << "first_decision_date", "first_decision_date", "str", FALSE >>,
        << "notice_number_s", "notice_number_s", "str", FALSE >>
    >>,
    UrbanPlanningLocationNormalizationGIS |-> <<
        << "prefecture", "prefecture", "str", FALSE >>,
        << "city_code", "city_code", "str", FALSE >>,
        << "city_name", "city_name", "str", FALSE >>,
        << "decision_date", "decision_date", "str", FALSE >>,
        << "decision_classification", "decision_classification", "str", FALSE >>,
        << "decision_maker", "decision_maker", "str", FALSE >>,
        << "notice_number", "notice_number", "str", FALSE >>,
        << "kubun_id", "kubun_id", "int", FALSE >>,
        << "kubun_name_ja", "kubun_name_ja", "str", FALSE >>,
        << "area_classification_ja", "area_classification_ja", "str", FALSE >>,
        << "first_decision_date", "first_decision_date", "str", FALSE >>,
        << "notice_number_s", "notice_number_s", "str", FALSE >>
    >>,
    ElementarySchoolDistrictGIS |-> <<
        << "A27_001", "A27_001", "str", FALSE >>,
        << "A27_002", "A27_002", "str", FALSE >>,
        << "A27_003", "A27_003", "str", FALSE >>,
        << "A27_004_ja", "A27_004_ja", "str", FALSE >>,
        << "A27_005", "A27_005", "str", FALSE >>
    >>,
    JuniorHighSchoolDistrictGISData |-> <<
        << "A32_001", "A32_001", "str", FALSE >>,
        << "A32_002", "A32_002", "str", FALSE >>,
        << "A32_003", "A32_003", "str", FALSE >>,
        << "A32_004_ja", "A32_004_ja", "str", FALSE >>,
        << "A32_005", "A32_005", "str", FALSE >>
    >>,
    PreschoolGISData |-> <<
        << "administrative_area_code", "administrativeAreaCode", "str", FALSE >>,
        << "preschool_name_ja", "preSchoolName_ja", "str", FALSE >>,
        << "school_code", "schoolCode", "str", FALSE >>,
        << "school_class_code", "schoolClassCode", "int", FALSE >>,
        << "school_class_code_name_ja", "schoolClassCode_name_ja", "str", FALSE >>,
        << "location_ja", "location_ja", "str", FALSE >>,
        << "administrator_code", "administratorCode", "int", FALSE >>,
        << "close_school_code", "closeSchoolCode", "int", FALSE >>,
        << "welfare_facility_class_code", "welfareFacilityClassCode", "int", FALSE >>,
        << "welfare_facility_middle_class_code", "welfareFacilityMiddleClassCode", "int", FALSE >>,
        << "welfare_facility_minor_class_code", "welfareFacilityMinorClassCode", "int", FALSE >>
    >>,
    SchoolGISData |-> <<
        << "P29_001", "P29_001", "str", FALSE >>,
        << "P29_002", "P29_002", "str", FALSE >>,
        << "P29_003", "P29_003", "int", FALSE >>,
        << "P29_003_name_ja", "P29_003_name_ja", "str", FALSE >>,
        << "P29_004_ja", "P29_004_ja", "str", FALSE >>,
        << "P29_005_ja", "P29_005_ja", "str", FALSE >>,
        << "P29_006", "P29_006", "int", FALSE >>,
        << "P29_007", "P29_007", "int", FALSE >>,
        << "P29_008", "P29_008", "str", FALSE >>,
        << "P29_009_ja", "P29_009_ja", "str", FALSE >>
    >>,
    MedicalFacilityGISData |-> <<
        << "P04_001", "P04_001", "int", FALSE >>,
        << "P04_001_name_ja", "P04_001_name_ja", "str", FALSE >>,
        << "P04_002_ja", "P04_002_ja", "str", FALSE >>,
        << "P04_003_ja", "P04_003_ja", "str", FALSE >>,
        << "P04_004", "P04_004", "str", FALSE >>,
        << "P04_005", "P04_005", "str", FALSE >>,
        << "P04_006", "P04_006", "str", FALSE >>,
        << "P04_007", "P04_007", "int", FALSE >>,
        << "P04_008", "P04_008", "int", FALSE >>,
        << "P04_009", "P04_009", "int", FALSE >>,
        << "P04_010", "P04_010", "int", FALSE >>,
        << "medical_subject_ja", "medical_subject_ja", "str", FALSE >>
    >>,
    WelfareFacilityGISData |-> <<
        << "P14_001", "P14_001", "str", FALSE >>,
        << "P14_002", "P14_002", "str", FALSE >>,
        << "P14_003", "P14_003", "str", FALSE >>,
        << "P14_004_ja", "P14_004_ja", "str", FALSE >>,
        << "P14_005", "P14_005", "str", FALSE >>,
        << "P14_005_name_ja", "P14_005_name_ja", "str", FALSE >>,
        << "P14_006", "P14_006", "str", FALSE >>,
        << "P14_006_name_ja", "P14_006_name_ja", "str", FALSE >>,
        << "P14_007", "P14_007", "str", FALSE >>,
        << "P14_008_ja", "P14_008_ja", "str", FALSE >>,
        << "P14_009", "P14_009", "int", FALSE >>,
        << "P14_010", "P14_010", "int", FALSE >>
    >>,
    FuturePopulationMeshData |-> <<
        << "mesh_id", "MESH_ID", "int", FALSE >>,
        << "shicode", "SHICODE", "int", FALSE >>,
        << "PTN_20XX", "PTN_20XX", "int", FALSE >>,
        << "hitoku_20XX", "HITOKU_20XX", "str", FALSE >>,
        << "gassan_20XX", "GASSAN_20XX", "str", FALSE >>,
        << "PT0_20XX", "PT0_20XX", "int", FALSE >>,
        << "PT1_20XX", "PT1_20XX", "int", FALSE >>,
        << "PT2_20XX", "PT2_20XX", "int", FALSE >>,
        << "PT3_20XX", "PT3_20XX", "int", FALSE >>,
        << "PT4_20XX", "PT4_20XX", "int", FALSE >>,
        << "PT5_20XX", "PT5_20XX", "int", FALSE >>,
        << "PT6_20XX", "PT6_20XX", "int", FALSE >>,
        << "PT7_20XX", "PT7_20XX", "int", FALSE >>,
        << "PT8_20XX", "PT8_20XX", "int", FALSE >>,
        << "PT9_20XX", "PT9_20XX", "int", FALSE >>,
        << "PT10_20XX", "PT10_20XX", "int", FALSE >>,
        << "PT11_20XX", "PT11_20XX", "int", FALSE >>,
        << "PT12_20XX", "PT12_20XX", "int", FALSE >>,
        << "PT13_20XX", "PT13_20XX", "int", FALSE >>,
        << "PT14_20XX", "PT14_20XX", "int", FALSE >>,
        << "PT15_20XX", "PT15_20XX", "int", FALSE >>,
        << "PT16_20XX", "PT16_20XX", "int", FALSE >>,
        << "PT17_20XX", "PT17_20XX", "int", FALSE >>,
        << "PT18_20XX", "PT18_20XX", "int", FALSE >>,
        << "PT19_20XX", "PT19_20XX", "int", FALSE >>,
        << "PTA_20XX", "PTA_20XX", "int", FALSE >>,
        << "PTB_20XX", "PTB_20XX", "int", FALSE >>,
        << "PTC_20XX", "PTC_20XX", "int", FALSE >>,
        << "PTD_20XX", "PTD_20XX", "int", FALSE >>,
        << "PTE_20XX", "PTE_20XX", "int", FALSE >>,
        << "RTA_20XX", "RTA_20XX", "float", FALSE >>,
        << "RTB_20XX", "RTB_20XX", "float", FALSE >>,
        << "RTC_20XX", "RTC_20XX", "float", FALSE >>,
        << "RTD_20XX", "RTD_20XX", "float", FALSE >>,
        << "RTE_20XX", "RTE_20XX", "float", FALSE >>
    >>,
    FirePreventionAreaGISData |-> <<
        << "fire_prevention_ja", "fire_prevention_ja", "str", FALSE >>,
        << "kubun_id", "kubun_id", "int", FALSE >>,
        << "prefecture", "prefecture", "str", FALSE >>,
        << "city_code", "city_code", "str", FALSE >>,
        << "city_name", "city_name", "str", FALSE >>,
        << "decision_date", "decision_date", "str", FALSE >>,
        << "decision_classification", "decision_classification", "str", FALSE >>,
        << "decision_maker", "decision_maker", "str", FALSE >>,
        << "notice_number", "notice_number", "str", FALSE >>,
        << "first_decision_date", "first_decision_date", "str", FALSE >>,
        << "notice_number_s", "notice_number_s", "str", FALSE >>
    >>,
    StationPassengerData |-> <<
        << "S12_001_ja", "S12_001_ja", "str", FALSE >>,
        << "S12_001c", "S12_001c", "str", FALSE >>,
        << "S12_002_ja", "S12_002_ja", "str", FALSE >>,
        << "S12_003_ja", "S12_003_ja", "str", FALSE >>,
        << "S12_004", "S12_004", "str", FALSE >>,
        << "S12_005", "S12_005", "str", FALSE >>,
        << "S12_006", "S12_006", "int", FALSE >>,
        << "S12_007", "S12_007", "int", FALSE >>,
        << "S12_008", "S12_008", "str", FALSE >>,
        << "S12_009", "S12_009", "int", FALSE >>,
        << "S12_010", "S12_010", "int", FALSE >>,
        << "S12_011", "S12_011", "int", FALSE >>,
        << "S12_012", "S12_012", "str", FALSE >>,
        << "S12_013", "S12_013", "int", FALSE >>,
        << "S12_014", "S12_014", "int", FALSE >>,
        << "S12_015", "S12_015", "int", FALSE >>,
        << "S12_016", "S12_016", "str", FALSE >>,
        << "S12_017", "S12_017", "int", FALSE >>,
        << "S12_018", "S12_018", "int", FALSE >>,
        << "S12_019", "S12_019", "int", FALSE >>,
        << "S12_020", "S12_020", "str", FALSE >>,
        << "S12_021", "S12_021", "int", FALSE >>,
        << "S12_022", "S12_022", "int", FALSE >>,
        << "S12_023", "S12_023", "int", FALSE >>,
        << "S12_024", "S12_024", "str", FALSE >>,
        << "S12_025", "S12_025", "int", FALSE >>,
        << "S12_026", "S12_026", "int", FALSE >>,
        << "S12_027", "S12_027", "int", FALSE >>,
        << "S12_028", "S12_028", "str", FALSE >>,
        << "S12_029", "S12_029", "int", FALSE >>,
        << "S12_030", "S12_030", "int", FALSE >>,
        << "S12_031", "S12_031", "int", FALSE >>,
        << "S12_032", "S12_032", "str", FALSE >>,
        << "S12_033", "S12_033", "int", FALSE >>,
        << "S12_034", "S12_034", "int", FALSE >>,
        << "S12_035", "S12_035", "int", FALSE >>,
        << "S12_036", "S12_036", "str", FALSE >>,
        << "S12_037", "S12_037", "int", FALSE >>,
        << "S12_038", "S12_038", "int", FALSE >>,
        << "S12_039", "S12_039", "int", FALSE >>,
        << "S12_040", "S12_040", "str", FALSE >>,
        << "S12_041", "S12_041", "int", FALSE >>,
        << "S12_042", "S12_042", "int", FALSE >>,
        << "S12_043", "S12_043", "int", FALSE >>,
        << "S12_044", "S12_044", "str", FALSE >>,
        << "S12_045", "S12_045", "int", FALSE >>,
        << "S12_046", "S12_046", "int", FALSE >>,
        << "S12_047", "S12_047", "int", FALSE >>,
        << "S12_048", "S12_048", "str", FALSE >>,
        << "S12_049", "S12_049", "int", FALSE >>,
        << "S12_050", "S12_050", "int", FALSE >>,
        << "S12_051", "S12_051", "int", FALSE >>,
        << "S12_052", "S12_052", "str", FALSE >>,
        << "S12_053", "S12_053", "int", FALSE >>
    >>,
    DisasterRiskAreaGISData |-> <<
        << "A48_001", "A48_001", "str", FALSE >>,
        << "A48_002", "A48_002", "str", FALSE >>,
        << "A48_003", "A48_003", "str", FALSE >>,
        << "A48_004", "A48_004", "int", FALSE >>,
        << "A48_005_ja", "A48_005_ja", "str", FALSE >>,
        << "A48_006", "A48_006", "str", FALSE >>,
        << "A48_007", "A48_007", "int", FALSE >>,
        << "A48_007_name_ja", "A48_007_name_ja", "str", FALSE >>,
        << "A48_008_ja", "A48_008_ja", "str", FALSE >>,
        << "A48_009", "A48_009", "str", FALSE >>,
        << "A48_010", "A48_010", "str", FALSE >>,
        << "A48_011", "A48_011", "str", FALSE >>,
        << "A48_012", "A48_012", "float", FALSE >>,
        << "A48_013", "A48_013", "str", FALSE >>,
        << "A48_014", "A48_014", "str", FALSE >>
    >>,
    LandslidePreventionGISData |-> <<
        << "prefecture_code", "prefecture_code", "str", FALSE >>,
        << "group_code", "group_code", "str", FALSE >>,
        << "city_name", "city_name", "str", FALSE >>,
        << "region_name", "region_name", "str", FALSE >>,
        << "address", "address", "str", FALSE >>,
        << "notice_date", "notice_date", "str", FALSE >>,
        << "notice_number", "notice_number", "str", FALSE >>,
        << "landslide_area", "landslide_area", "str", FALSE >>,
        << "charge_ministry_code", "charge_ministry_code", "int", FALSE >>,
        << "prefecture_name", "prefecture_name", "str", FALSE >>,
        << "charge_ministry_name", "charge_ministry_name", "str", FALSE >>
    >>,
    SteepSlopeHazardGISData |-> <<
        << "prefecture_code", "prefecture_code", "str", FALSE >>,
        << "group_code", "group_code", "str", FALSE >>,
        << "city_name", "city_name", "str", FALSE >>,
        << "region_name", "region_name", "str", FALSE >>,
        << "address", "address", "str", FALSE >>,
        << "public_notice_date", "public_notice_date", "str", FALSE >>,
        << "public_notice_number", "public_notice_number", "str", FALSE >>,
        << "landslide_area", "landslide_area", "str", FALSE >>,
        << "prefecture_name", "prefecture_name", "str", FALSE >>
    >>,
    DistrictPlanningGISData |-> <<
        << "plan_name", "plan_name", "str", FALSE >>,
        << "plan_type_ja", "plan_type_ja", "str", FALSE >>,
        << "kubun_id", "kubun_id", "str", FALSE >>,
        << "group_code", "group_code", "str", FALSE >>,
        << "decision_date", "decision_date", "str", FALSE >>,
        << "decision_type_ja", "decision_type_ja", "str", FALSE >>,
        << "decision_maker", "decision_maker", "str", FALSE >>,
        << "notice_number", "notice_number", "str", FALSE >>,
        << "prefecture", "prefecture", "str", FALSE >>,
        << "city_name", "city_name", "str", FALSE >>,
        << "first_decision_date", "first_decision_date", "str", FALSE >>,
        << "notice_number_s", "notice_number_s", "str", FALSE >>
    >>,
    HighUtilizationDistrictGISData |-> <<
        << "advanced_name", "advanced_name", "str", FALSE >>,
        << "advanced_type_ja", "advanced_type_ja", "str", FALSE >>,
        << "kubun_id", "kubun_id", "str", FALSE >>,
        << "group_code", "group_code", "str", FALSE >>,
        << "decision_date", "decision_date", "str", FALSE >>,
        << "decision_type_ja", "decision_type_ja", "str", FALSE >>,
        << "decision_maker", "decision_maker", "str", FALSE >>,
        << "notice_number", "notice_number", "str", FALSE >>,
        << "prefecture", "prefecture", "str", FALSE >>,
        << "city_name", "city_name", "str", FALSE >>,
        << "first_decision_date", "first_decision_date", "str", FALSE >>,
        << "notice_number_s", "notice_number_s", "str", FALSE >>
    >>,
    EmbankmentGISData |-> <<
        << "embankment_classification", "embankment_classification", "str", FALSE >>,
        << "prefecture_code", "prefecture_code", "str", FALSE >>,
        << "prefecture_name", "prefecture_name", "str", FALSE >>,
        << "city_code", "city_code", "str", FALSE >>,
        << "city_name", "city_name", "str", FALSE >>,
        << "embankment_number", "embankment_number", "str", FALSE >>
    >>,
    LibraryGISData |-> <<
        << "P27_001", "P27_001", "str", FALSE >>,
        << "P27_002", "P27_002", "str", FALSE >>,
        << "P27_003", "P27_003", "str", FALSE >>,
        << "P27_003_name_ja", "P27_003_name_ja", "str", FALSE >>,
        << "P27_004", "P27_004", "str", FALSE >>,
        << "P27_004_name_ja", "P27_004_name_ja", "str", FALSE >>,
        << "P27_005_ja", "P27_005_ja", "str", FALSE >>,
        << "P27_006_ja", "P27_006_ja", "str", FALSE >>,
        << "P27_007", "P27_007", "int", FALSE >>,
        << "P27_008", "P27_008", "int", FALSE >>,
        << "P27_009", "P27_009", "int", FALSE >>
    >>,
    TownHallGISData |-> <<
        << "P05_001", "P05_001", "str", FALSE >>,
        << "P05_002", "P05_002", "str", FALSE >>,
        << "P05_002_name_ja", "P05_002_name_ja", "str", FALSE >>,
        << "P05_003_ja", "P05_003_ja", "str", FALSE >>,
        << "P05_004_ja", "P05_004_ja", "str", FALSE >>
    >>,
    NaturalParkGSIData |-> <<
        << "object_id", "OBJECTID", "int", TRUE >>,
        << "prefecture_cd", "PREFEC_CD", "str", FALSE >>,
        << "area_cd", "AREA_CD", "str", FALSE >>,
        << "ctv_name", "CTV_NAME", "str", FALSE >>,
        << "fis_year", "FIS_YEAR", "int", FALSE >>,
        << "thema_no", "THEMA_NO", "int", FALSE >>,
        << "layer_no", "LAYER_NO", "int", FALSE >>,
        << "area_size", "AREA_SIZE", "int", FALSE >>,
        << "ioside_div", "IOSIDE_DIV", "int", FALSE >>,
        << "remark_str", "REMARK_STR", "str", FALSE >>,
        << "shape_leng", "Shape_Leng", "float", FALSE >>,
        << "shape_area", "Shape_Area", "float", FALSE >>,
        << "obj_name_ja", "OBJ_NAME_ja", "str", FALSE >>
    >>
]

Field(row) ==
    [name |-> row[1], alias |-> row[2], type |-> row[3], required |-> row[4]]

Fields(cls) == [i \in DOMAIN ModelFields[cls] |-> Field(ModelFields[cls][i])]

RequiredFields(cls) == { f \in Range(Fields(cls)) : f.required }

\* whether the input names the field, and the raw value it gives it
Present(f, d) == f.alias \in DOMAIN d \/ f.name \in DOMAIN d
RawValue(f, d) == IF f.alias \in DOMAIN d THEN d[f.alias] ELSE d[f.name]

ValidateFieldLenient(f, d) ==
    IF ~Present(f, d) THEN Valid(JNull)
    ELSE LET v == empty_str_to_none(RawValue(f, d))
         IN  IF Coerce(f.type, v).ok THEN Coerce(f.type, v) ELSE Valid(v)

ValidateFieldNormalisesAfter(f, d) ==
    IF ~Present(f, d) \/ RawValue(f, d) = JNull
    THEN IF f.required THEN Invalid ELSE Valid(JNull)
    ELSE LET c == Coerce(f.type, RawValue(f, d))
         IN  IF c.ok THEN Valid(empty_str_to_none(c.value)) ELSE Invalid

\* one field of cls(**d): the "before" validator first, then the declared
\* type; a field the input does not name takes its default, None, which a
\* required field does not have
ValidateField(f, d) ==
    IF ~Present(f, d)
    THEN IF f.required THEN Invalid ELSE Valid(JNull)
    ELSE LET v == empty_str_to_none(RawValue(f, d))
         IN  IF v = JNull
             THEN IF f.required THEN Invalid ELSE Valid(JNull)
             ELSE Coerce(f.type, v)

\* the fields of each class by their names
FieldByName ==
    [cls \in DOMAIN ModelFields |->
        [n \in { f.name : f \in Range(Fields(cls)) } |->
            CHOOSE f \in Range(Fields(cls)) : f.name = n]]

\* cls(**d): whether validation passed, and the record with one value per field
Construct(cls, d) ==
    LET byName == [n \in DOMAIN FieldByName[cls] |->
                      ValidateField(FieldByName[cls][n], d)]
    IN  [ok |-> \A n \in DOMAIN byName : byName[n].ok,
         record |-> [n \in DOMAIN byName |-> byName[n].value]]

(***************************************************************************)
(* Geometry: the "before" validator check_coordinates, then the declared   *)
(* field types: type is one of four literals and coordinates is a list of  *)
(* floats nested one to four levels deep, each number coerced to float.    *)
(***************************************************************************)
RECURSIVE IsAllListAcceptsInt(_, _, _)
IsAllListAcceptsInt(l, max_depth, depth) ==
    IF depth >= max_depth THEN l.t \in {"float", "int"}
    ELSE IF l.t # "list" THEN FALSE
    ELSE IF Len(l.v) = 0 THEN TRUE
    ELSE IsAllListAcceptsInt(l.v[1], max_depth, depth + 1)

RECURSIVE is_all_list(_, _, _)
is_all_list(l, max_depth, depth) ==
    IF depth >= max_depth THEN l.t = "float"
    ELSE IF l.t # "list" THEN FALSE
    ELSE IF Len(l.v) = 0 THEN TRUE
    ELSE is_all_list(l.v[1], max_depth, depth + 1)

CheckCoordinatesSkipped(values) == TRUE

\* TRUE when the validator raises no ValueError
check_coordinates(values) ==
    LET geometry_type == DictGet(values, "type", None)
        coordinates == DictGet(values, "coordinates", JNull)
    IN  /\ ~(geometry_type = "Point" /\ ~is_all_list(coordinates, 1, 0))
        /\ ~(geometry_type = "LineString" /\ ~is_all_list(coordinates, 2, 0))
        /\ ~(geometry_type = "Polygon" /\ ~is_all_list(coordinates, 3, 0))
        /\ ~(geometry_type = "MultiPolygon" /\ ~is_all_list(coordinates, 4, 0))

GeometryTypes == {"Point", "LineString", "Polygon", "MultiPolygon"}

\* list[float], list[list[float]], ... : every element down to the given depth
RECURSIVE NestedFloats(_, _)
NestedFloats(j, depth) ==
    IF depth = 0 THEN j.t # "list" /\ j.t # "null" /\ Coerce("float", j).ok
    ELSE /\ j.t = "list"
         /\ \A i \in 1..Len(j.v) : NestedFloats(j.v[i], depth - 1)

\* the value of a coordinates field that validated: every number a float
RECURSIVE CoerceFloats(_)
CoerceFloats(j) ==
    IF j.t = "list" THEN JList([i \in 1..Len(j.v) |-> CoerceFloats(j.v[i])])
    ELSE Coerce("float", j).value

GeometryValidFirstMemberOnly(values) ==
    /\ check_coordinates(values)
    /\ "type" \in DOMAIN values
    /\ values["type"] \in GeometryTypes
    /\ "coordinates" \in DOMAIN values
    /\ NestedFloats(values["coordinates"], 1)

GeometryValid(values) ==
    /\ check_coordinates(values)
    /\ "type" \in DOMAIN values
    /\ values["type"] \in GeometryTypes
    /\ "coordinates" \in DOMAIN values
    /\ \E depth \in 1..4 : NestedFloats(values["coordinates"], depth)

\* Geometry(**values): whether validation passed, and the model's two fields
Geometry(values) ==
    IF GeometryValid(values)
    THEN [ok |-> TRUE, type |-> values["type"],
          coordinates |-> CoerceFloats(values["coordinates"])]
    ELSE [ok |-> FALSE, type |-> None, coordinates |-> JNull]

(***************************************************************************)
(* Outcomes of a Client method.                                            *)
(***************************************************************************)
ReturnedList(items) == [kind |-> "returned", response |-> << >>, value |-> << items >>]
ValidationError == [kind |-> "ValidationError", response |-> << >>, value |-> << >>]
KeyError == [kind |-> "KeyError", response |-> << >>, value |-> << >>]

\* the rows that validated, in their order
RECURSIVE SelectOk(_)
SelectOk(rows) ==
    IF rows = << >> THEN << >>
    ELSE IF rows[1].ok THEN << rows[1] >> \o SelectOk(Tail(rows))
    ELSE SelectOk(Tail(rows))

(***************************************************************************)
(* Client._get_data on the outcome of get_json: an exception of get_json   *)
(* passes through; a body is validated as DataAPIResponse (status: str,    *)
(* data: a list) and each element of data becomes one record, in order;    *)
(* the first element that does not validate raises.                        *)
(***************************************************************************)
DataAPIResponseStatusIgnored(json) == "data" \in DOMAIN json

\* DataAPIResponse[T](**json) validates: status is there and is a str (no
\* coercion, and no blank-string rule: the class is a plain BaseModel), data
\* is there and is a list, of anything since T is not bound
DataAPIResponse(json) ==
    /\ {"status", "data"} \subseteq DOMAIN json
    /\ Coerce("str", json.status).ok

GetDataSwallows(cls, o) ==
    IF o.kind # "returned" THEN ReturnedList(<< >>) ELSE o

GetDataSkipsInvalid(cls, o) ==
    IF o.kind # "returned" THEN o
    ELSE LET json == o.value[1]
         IN  IF ~DataAPIResponse(json) THEN ValidationError
             ELSE LET rows == SelectOk([i \in DOMAIN json.data |->
                                           Construct(cls, json.data[i])])
                  IN  ReturnedList([i \in DOMAIN rows |-> rows[i].record])

GetDataReversed(cls, o) ==
    IF o.kind # "returned" THEN o
    ELSE LET json == o.value[1]
         IN  IF ~DataAPIResponse(json) THEN ValidationError
             ELSE LET n == Len(json.data)
                      rows == [i \in DOMAIN json.data |->
                                  Construct(cls, json.data[n + 1 - i])]
                  IN  IF \E i \in DOMAIN rows : ~rows[i].ok THEN ValidationError
                      ELSE ReturnedList([i \in DOMAIN rows |-> rows[i].record])

_get_data(cls, o) ==
    IF o.kind # "returned" THEN o
    ELSE LET json == o.value[1]
         IN  IF ~DataAPIResponse(json) THEN ValidationError
             ELSE LET rows == [i \in DOMAIN json.data |-> Construct(cls, json.data[i])]
                  IN  IF \E i \in DOMAIN rows : ~rows[i].ok THEN ValidationError
                      ELSE ReturnedList([i \in DOMAIN rows |-> rows[i].record])

(***************************************************************************)
(* Client._get_geo_data on the outcome of get_json: an exception of        *)
(* get_json passes through; each feature gets its properties replaced by a *)
(* record, then the list is validated as list[GeoAPIResponseItem]: every   *)
(* item needs a type and a geometry that Geometry accepts.                 *)
(***************************************************************************)
\* f["properties"] is there and cls(**f["properties"]) validates
PropertiesOk(cls, f) ==
    "properties" \in DOMAIN f /\ Construct(cls, f.properties).ok

\* GeoAPIResponseItem validates the feature with its properties replaced
ItemOk(f) ==
    /\ {"type", "geometry"} \subseteq DOMAIN f
    /\ Geometry(f.geometry).ok

GeoAPIResponseItem(cls, f) ==
    [type |-> f.type,
     geometry |-> [type |-> Geometry(f.geometry).type,
                   coordinates |-> Geometry(f.geometry).coordinates],
     properties |-> Construct(cls, f.properties).record]

GetGeoDataReversed(cls, o) ==
    IF o.kind # "returned" THEN o
    ELSE LET raw_resp == o.value[1]
         IN  IF "features" \notin DOMAIN raw_resp THEN KeyError
             ELSE LET fs == raw_resp.features
                      n == Len(fs)
                  IN  IF \E i \in DOMAIN fs : ~PropertiesOk(cls, fs[i]) \/ ~ItemOk(fs[i])
                      THEN ValidationError
                      ELSE ReturnedList([i \in DOMAIN fs |->
                                            GeoAPIResponseItem(cls, fs[n + 1 - i])])

_get_geo_data(cls, o) ==
    IF o.kind # "returned" THEN o
    ELSE LET raw_resp == o.value[1]
         IN  IF "features" \notin DOMAIN raw_resp THEN KeyError
             ELSE LET fs == raw_resp.features
                      bad == { i \in DOMAIN fs : ~PropertiesOk(cls, fs[i]) }
                      first_bad == CHOOSE i \in bad : \A j \in bad : i <= j
                  IN  IF bad # {}
                      THEN IF "properties" \notin DOMAIN fs[first_bad]
                           THEN KeyError ELSE ValidationError
                      ELSE IF \E i \in DOMAIN fs : ~ItemOk(fs[i])
                           THEN ValidationError
                           ELSE ReturnedList([i \in DOMAIN fs |->
                                                 GeoAPIResponseItem(cls, fs[i])])

(***************************************************************************)
(* Client: one method per endpoint.  required: the keyword arguments       *)
(* without a default; defaults: the others with their defaults; params:    *)
(* the dict handed on, as (key, "arg", argument) or (key, "const", value). *)
(***************************************************************************)
Endpoints == {
    [method |-> "get_transaction_price_list", fetch |-> "_get_data",
     request_path |-> "/ex-api/external/XIT001", cls |-> "TransactionPrice",
     passes_options |-> TRUE,
     required |-> {"year"},
     defaults |-> [area |-> None, quarter |-> None, city |-> None, station |-> None, price_classification |-> None, language |-> None],
     params |-> << << "year", "arg", "year" >>, << "area", "arg", "area" >>, << "quarter", "arg", "quarter" >>, << "city", "arg", "city" >>, << "station", "arg", "station" >>, << "priceClassification", "arg", "price_classification" >>, << "language", "arg", "language" >> >>],
    [method |-> "get_city_list", fetch |-> "_get_data",
     request_path |-> "/ex-api/external/XIT002", cls |-> "Municipality",
     passes_options |-> TRUE,
     required |-> {"area"},
     defaults |-> [language |-> None],
     params |-> << << "area", "arg", "area" >>, << "language", "arg", "language" >> >>],
    [method |-> "get_apraisal_report_list", fetch |-> "_get_data",
     request_path |-> "/ex-api/external/XCT001", cls |-> "AppraisalReport",
     passes_options |-> TRUE,
     required |-> {"year", "area", "division"},
     defaults |-> EmptyDict,
     params |-> << << "year", "arg", "year" >>, << "area", "arg", "area" >>, << "division", "arg", "division" >> >>],
    [method |-> "get_transaction_price_geo_list", fetch |-> "_get_geo_data",
     request_path |-> "/ex-api/external/XPT001", cls |-> "TransactionPriceGeo",
     passes_options |-> TRUE,
     required |-> {"z", "x", "y", "from_yyyyn", "to_yyyyn"},
     defaults |-> [response_format |-> "geojson", price_classification |-> None, land_type_code |-> None],
     params |-> << << "response_format", "arg", "response_format" >>, << "z", "arg", "z" >>, << "x", "arg", "x" >>, << "y", "arg", "y" >>, << "from", "arg", "from_yyyyn" >>, << "to", "arg", "to_yyyyn" >>, << "priceClassification", "arg", "price_classification" >>, << "landTypeCode", "arg", "land_type_code" >> >>],
    [method |-> "get_land_valuation_geo_list", fetch |-> "_get_geo_data",
     request_path |-> "/ex-api/external/XPT002", cls |-> "LandValuationGeo",
     passes_options |-> FALSE,
     required |-> {"z", "x", "y", "year"},
     defaults |-> [response_format |-> "geojson", price_classification |-> None, use_category_code |-> None],
     params |-> << << "response_format", "arg", "response_format" >>, << "z", "arg", "z" >>, << "x", "arg", "x" >>, << "y", "arg", "y" >>, << "year", "arg", "year" >>, << "priceClassification", "arg", "price_classification" >>, << "useCategoryCode", "arg", "use_category_code" >> >>],
    [method |-> "get_urban_planning_zone_gis_list", fetch |-> "_get_geo_data",
     request_path |-> "/ex-api/external/XKT001", cls |-> "UrbanPlanningZoneGIS",
     passes_options |-> FALSE,
     required |-> {"z", "x", "y"},
     defaults |-> EmptyDict,
     params |-> << << "response_format", "const", "geojson" >>, << "z", "arg", "z" >>, << "x", "arg", "x" >>, << "y", "arg", "y" >> >>],
    [method |-> "get_urban_planning_use_district_gis_list", fetch |-> "_get_geo_data",
     request_path |-> "/ex-api/external/XKT002", cls |-> "UrbanPlanningUseDistrictGIS",
     passes_options |-> FALSE,
     required |-> {"z", "x", "y"},
     defaults |-> [response_format |-> "geojson"],
     params |-> << << "response_format", "arg", "response_format" >>, << "z", "arg", "z" >>, << "x", "arg", "x" >>, << "y", "arg", "y" >> >>],
    [method |-> "get_urban_planning_location_normalization_gis_list", fetch |-> "_get_geo_data",
     request_path |-> "/ex-api/external/XKT003", cls |-> "UrbanPlanningLocationNormalizationGIS",
     passes_options |-> FALSE,
     required |-> {"z", "x", "y"},
     defaults |-> [response_format |-> "geojson"],
     params |-> << << "response_format", "arg", "response_format" >>, << "z", "arg", "z" >>, << "x", "arg", "x" >>, << "y", "arg", "y" >> >>],
    [method |-> "get_elementary_school_district_gis_list", fetch |-> "_get_geo_data",
     request_path |-> "/ex-api/external/XKT004", cls |-> "ElementarySchoolDistrictGIS",
     passes_options |-> FALSE,
     required |-> {"z", "x", "y"},
     defaults |-> [response_format |-> "geojson", administrative_area_code |-> None],
     params |-> << << "response_format", "arg", "response_format" >>, << "z", "arg", "z" >>, << "x", "arg", "x" >>, << "y", "arg", "y" >>, << "administrativeAreaCode", "arg", "administrative_area_code" >> >>],
    [method |-> "get_junior_high_school_district_gis_list", fetch |-> "_get_geo_data",
     request_path |-> "/ex-api/external/XKT005", cls |-> "JuniorHighSchoolDistrictGISData",
     passes_options |-> FALSE,
     required |-> {"z", "x", "y"},
     defaults |-> [response_format |-> "geojson", administrative_area_code |-> None],
     params |-> << << "response_format", "arg", "response_format" >>, << "z", "arg", "z" >>, << "x", "arg", "x" >>, << "y", "arg", "y" >>, << "administrativeAreaCode", "arg", "administrative_area_code" >> >>],
    [method |-> "get_school_gis_list", fetch |-> "_get_geo_data",
     request_path |-> "/ex-api/external/XKT006", cls |-> "SchoolGISData",
     passes_options |-> FALSE,
     required |-> {"z", "x", "y"},
     defaults |-> [response_format |-> "geojson"],
     params |-> << << "response_format", "arg", "response_format" >>, << "z", "arg", "z" >>, << "x", "arg", "x" >>, << "y", "arg", "y" >> >>],
    [method |-> "get_preschool_gis_list", fetch |-> "_get_geo_data",
     request_path |-> "/ex-api/external/XKT007", cls |-> "PreschoolGISData",
     passes_options |-> FALSE,
     required |-> {"z", "x", "y"},
     defaults |-> [response_format |-> "geojson"],
     params |-> << << "response_format", "arg", "response_format" >>, << "z", "arg", "z" >>, << "x", "arg", "x" >>, << "y", "arg", "y" >> >>],
    [method |-> "get_medical_facility_gis_list", fetch |-> "_get_geo_data",
     request_path |-> "/ex-api/external/XKT010", cls |-> "MedicalFacilityGISData",
     passes_options |-> FALSE,
     required |-> {"z", "x", "y"},
     defaults |-> [response_format |-> "geojson"],
     params |-> << << "response_format", "arg", "response_format" >>, << "z", "arg", "z" >>, << "x", "arg", "x" >>, << "y", "arg", "y" >> >>],
    [method |-> "get_welfare_facility_gis_list", fetch |-> "_get_geo_data",
     request_path |-> "/ex-api/external/XKT011", cls |-> "WelfareFacilityGISData",
     passes_options |-> FALSE,
     required |-> {"z", "x", "y"},
     defaults |-> [response_format |-> "geojson", administrative_area_code |-> None, welfare_facility_class_code |-> None, welfare_facility_middle_class_code |-> None, welfare_facility_minor_class_code |-> None],
     params |-> << << "response_format", "arg", "response_format" >>, << "z", "arg", "z" >>, << "x", "arg", "x" >>, << "y", "arg", "y" >>, << "administrativeAreaCode", "arg", "administrative_area_code" >>, << "welfareFacilityClassCode", "arg", "welfare_facility_class_code" >>, << "welfareFacilityMiddleClassCode", "arg", "welfare_facility_middle_class_code" >>, << "welfareFacilityMinorClassCode", "arg", "welfare_facility_minor_class_code" >> >>],
    [method |-> "get_future_population_mesh_list", fetch |-> "_get_geo_data",
     request_path |-> "/ex-api/external/XKT013", cls |-> "FuturePopulationMeshData",
     passes_options |-> FALSE,
     required |-> {"z", "x", "y"},
     defaults |-> [response_format |-> "geojson"],
     params |-> << << "response_format", "arg", "response_format" >>, << "z", "arg", "z" >>, << "x", "arg", "x" >>, << "y", "arg", "y" >> >>],
    [method |-> "get_fire_prevention_area_gis_list", fetch |-> "_get_geo_data",
     request_path |-> "/ex-api/external/XKT014", cls |-> "FirePreventionAreaGISData",
     passes_options |-> FALSE,
     required |-> {"z", "x", "y"},
     defaults |-> [response_format |-> "geojson"],
     params |-> << << "response_format", "arg", "response_format" >>, << "z", "arg", "z" >>, << "x", "arg", "x" >>, << "y", "arg", "y" >> >>],
    [method |-> "get_num_of_station_passenger_list", fetch |-> "_get_geo_data",
     request_path |-> "/ex-api/external/XKT015", cls |-> "StationPassengerData",
     passes_options |-> FALSE,
     required |-> {"z", "x", "y"},
     defaults |-> [response_format |-> "geojson"],
     params |-> << << "response_format", "arg", "response_format" >>, << "z", "arg", "z" >>, << "x", "arg", "x" >>, << "y", "arg", "y" >> >>],
    [method |-> "get_disaster_risk_area_gis_list", fetch |-> "_get_geo_data",
     request_path |-> "/ex-api/external/XKT016", cls |-> "DisasterRiskAreaGISData",
     passes_options |-> FALSE,
     required |-> {"z", "x", "y"},
     defaults |-> [response_format |-> "geojson", administrative_area_code |-> None],
     params |-> << << "response_format", "arg", "response_format" >>, << "z", "arg", "z" >>, << "x", "arg", "x" >>, << "y", "arg", "y" >>, << "administrativeAreaCode", "arg", "administrative_area_code" >> >>],
    [method |-> "get_library_gis_list", fetch |-> "_get_geo_data",
     request_path |-> "/ex-api/external/XKT017", cls |-> "LibraryGISData",
     passes_options |-> FALSE,
     required |-> {"z", "x", "y"},
     defaults |-> [response_format |-> "geojson", administrative_area_code |-> None],
     params |-> << << "response_format", "arg", "response_format" >>, << "z", "arg", "z" >>, << "x", "arg", "x" >>, << "y", "arg", "y" >>, << "administrativeAreaCode", "arg", "administrative_area_code" >> >>],
    [method |-> "get_town_hall_gis_list", fetch |-> "_get_geo_data",
     request_path |-> "/ex-api/external/XKT018", cls |-> "TownHallGISData",
     passes_options |-> FALSE,
     required |-> {"z", "x", "y"},
     defaults |-> [response_format |-> "geojson", administrative_area_code |-> None],
     params |-> << << "response_format", "arg", "response_format" >>, << "z", "arg", "z" >>, << "x", "arg", "x" >>, << "y", "arg", "y" >>, << "administrativeAreaCode", "arg", "administrative_area_code" >> >>],
    [method |-> "get_natural_park_gis_list", fetch |-> "_get_geo_data",
     request_path |-> "/ex-api/external/XKT019", cls |-> "NaturalParkGSIData",
     passes_options |-> FALSE,
     required |-> {"z", "x", "y"},
     defaults |-> [prefecture_code |-> None, district_code |-> None, response_format |-> "geojson"],
     params |-> << << "response_format", "arg", "response_format" >>, << "z", "arg", "z" >>, << "x", "arg", "x" >>, << "y", "arg", "y" >>, << "prefectureCode", "arg", "prefecture_code" >>, << "districtCode", "arg", "district_code" >> >>],
    [method |-> "get_embankment_gis_list", fetch |-> "_get_geo_data",
     request_path |-> "/ex-api/external/XKT020", cls |-> "EmbankmentGISData",
     passes_options |-> FALSE,
     required |-> {"z", "x", "y"},
     defaults |-> [response_format |-> "geojson"],
     params |-> << << "response_format", "arg", "response_format" >>, << "z", "arg", "z" >>, << "x", "arg", "x" >>, << "y", "arg", "y" >> >>],
    [method |-> "get_landslide_prevention_district_gis_list", fetch |-> "_get_geo_data",
     request_path |-> "/ex-api/external/XKT021", cls |-> "LandslidePreventionGISData",
     passes_options |-> FALSE,
     required |-> {"z", "x", "y"},
     defaults |-> [prefecture_code |-> None, administrative_area_code |-> None, response_format |-> "geojson"],
     params |-> << << "response_format", "arg", "response_format" >>, << "z", "arg", "z" >>, << "x", "arg", "x" >>, << "y", "arg", "y" >>, << "prefectureCode", "arg", "prefecture_code" >>, << "administrativeAreaCode", "arg", "administrative_area_code" >> >>],
    [method |-> "get_steep_slope_hazard_district_gis_list", fetch |-> "_get_geo_data",
     request_path |-> "/ex-api/external/XKT022", cls |-> "SteepSlopeHazardGISData",
     passes_options |-> FALSE,
     required |-> {"z", "x", "y"},
     defaults |-> [prefecture_code |-> None, administrative_area_code |-> None, response_format |-> "geojson"],
     params |-> << << "response_format", "arg", "response_format" >>, << "z", "arg", "z" >>, << "x", "arg", "x" >>, << "y", "arg", "y" >>, << "prefectureCode", "arg", "prefecture_code" >>, << "administrativeAreaCode", "arg", "administrative_area_code" >> >>],
    [method |-> "get_district_planning_gis_list", fetch |-> "_get_geo_data",
     request_path |-> "/ex-api/external/XKT023", cls |-> "DistrictPlanningGISData",
     passes_options |-> FALSE,
     required |-> {"z", "x", "y"},
     defaults |-> [response_format |-> "geojson"],
     params |-> << << "response_format", "arg", "response_format" >>, << "z", "arg", "z" >>, << "x", "arg", "x" >>, << "y", "arg", "y" >> >>],
    [method |-> "get_high_utilization_district_gis_list", fetch |-> "_get_geo_data",
     request_path |-> "/ex-api/external/XKT024", cls |-> "HighUtilizationDistrictGISData",
     passes_options |-> FALSE,
     required |-> {"z", "x", "y"},
     defaults |-> [response_format |-> "geojson"],
     params |-> << << "response_format", "arg", "response_format" >>, << "z", "arg", "z" >>, << "x", "arg", "x" >>, << "y", "arg", "y" >> >>]
}

Methods == { e.method : e \in Endpoints }
EndpointOf(m) == CHOOSE e \in Endpoints : e.method = m

\* the value the model's caller passes for an argument it sets
ArgValue(a) == IF a = "response_format" THEN "pbf" ELSE "13"

KwargsUnsetIsNone(e, given) ==
    [a \in e.required \cup DOMAIN e.defaults |->
        IF a \in e.required \/ given THEN ArgValue(a) ELSE None]

\* the keyword arguments of a call that sets every optional argument (given)
\* or none
Kwargs(e, given) ==
    [a \in e.required \cup DOMAIN e.defaults |->
        IF a \in e.required \/ given THEN ArgValue(a) ELSE e.defaults[a]]

ParamsOf(e, kwargs) ==
    [k \in { p[1] : p \in Range(e.params) } |->
        LET p == CHOOSE q \in Range(e.params) : q[1] = k
        IN  IF p[2] = "arg" THEN kwargs[p[3]] ELSE p[3]]

FacadeReturnExtendsKept(m, o) ==
    LET e == EndpointOf(m)
        r == IF e.fetch = "_get_data" THEN _get_data(e.cls, o)
             ELSE _get_geo_data(e.cls, o)
    IN  IF r.kind = "returned" /\ kept.facade.kind = "returned"
        THEN ReturnedList(kept.facade.value[1] \o r.value[1])
        ELSE r

FacadeReturn(m, o) ==
    LET e == EndpointOf(m)
    IN  IF e.fetch = "_get_data" THEN _get_data(e.cls, o) ELSE _get_geo_data(e.cls, o)

(***************************************************************************)
(* Inputs of get_json.                                                     *)
(***************************************************************************)
ApiKeys == {"API_KEY"}
BaseUrls == {DEFAULT_BASE_URL, "https://api.example.com", "http://localhost"}
HeaderDicts ==
    {<< >>,
     << << "Content-Type", "application/json" >> >>,
     << << AUTH_HEADER, "CALLER_KEY" >> >>,
     << << "ocp-apim-subscription-key", "CALLER_KEY" >> >>,
     << << AUTH_HEADER, "OTHER_KEY" >>,
        << "ocp-apim-subscription-key", "CALLER_KEY" >> >>}

GetJsonInput(request_path, params, options) ==
    [request_path |-> request_path, params |-> params, options |-> options]

GetJsonInputs ==
    { GetJsonInput("some-endpoint",
                   Some([param1 |-> "value1", param2 |-> "value2"]),
                   Some([headers |-> h])) : h \in HeaderDicts }
    \cup { GetJsonInput("some-endpoint", NoneDict, NoneDict),
           GetJsonInput("ex-api/external/XIT002",
                        Some([area |-> "13", language |-> None]),
                        Some(EmptyDict)) }

\* (options or {}).get("headers", {})
HeadersOf(options) ==
    IF options = NoneDict THEN << >>
    ELSE DictGet(options[1], "headers", << >>)

(***************************************************************************)
(* session.get(url, params=...): requests encodes the params dict into the *)
(* query string of the URL, one key=value pair per key, and leaves out     *)
(* every key whose value is None.                                          *)
(***************************************************************************)
EncodeParamsStringifiesNone(params) ==
    IF params = NoneDict THEN EmptyDict
    ELSE [k \in DOMAIN params[1] |->
             IF params[1][k] = None THEN "None" ELSE params[1][k]]

_encode_params(params) ==
    IF params = NoneDict THEN EmptyDict
    ELSE [k \in { j \in DOMAIN params[1] : params[1][j] # None } |-> params[1][k]]

NoQuery == EmptyDict

(***************************************************************************)
(* session.get(url, headers=...): requests copies the headers, pair by     *)
(* pair in insertion order, into a CaseInsensitiveDict, which keeps one    *)
(* value per name whatever the case of its letters: the pair inserted last *)
(* wins.  (The Session's own default headers, User-Agent and the like, are *)
(* left out.)                                                              *)
(***************************************************************************)
\* str.lower()
RECURSIVE lower(_)
lower(s) ==
    IF Len(s) = 0 THEN s
    ELSE LET UpperCase == "ABCDEFGHIJKLMNOPQRSTUVWXYZ"
             LowerCase == "abcdefghijklmnopqrstuvwxyz"
             c == SubSeq(s, 1, 1)
             up == { i \in 1..Len(UpperCase) : SubSeq(UpperCase, i, i) = c }
         IN  (IF up = {} THEN c
              ELSE LET i == CHOOSE j \in up : TRUE IN SubSeq(LowerCase, i, i))
             \o lower(SubSeq(s, 2, Len(s)))

RECURSIVE prepare_headers(_)
prepare_headers(headers) ==
    IF headers = << >> THEN EmptyDict
    ELSE LET n == Len(headers)
         IN  DictMerge(prepare_headers(SubSeq(headers, 1, n - 1)),
                       [k \in {lower(headers[n][1])} |-> headers[n][2]])

NoHeaders == EmptyDict

(***************************************************************************)
(* The caller's own params and options mappings once get_json has run:     *)
(* get_json reads options with .get, _with_auth_headers copies the headers *)
(* into a new dict, and session.get only reads params.                     *)
(***************************************************************************)
CallerMappingsAuthAdded(params, options) ==
    [params |-> params,
     options |-> IF options # NoneDict /\ "headers" \in DOMAIN options[1]
                 THEN Some([options[1] EXCEPT
                               !.headers = SetItem(@, AUTH_HEADER, api_key)])
                 ELSE options]

CallerMappings(params, options) == [params |-> params, options |-> options]

NoMappings == CallerMappings(NoneDict, NoneDict)

(***************************************************************************)
(* Initial state: a freshly constructed ApiHttpClient, nothing called.     *)
(***************************************************************************)
NoAdapter == << "none", 0 >>

\* _request_session has not been called
NotAsked == [status_forcelist |-> {}, allowed_methods |-> {}, called |-> FALSE]
Asked(status_forcelist, allowed_methods) ==
    [status_forcelist |-> status_forcelist, allowed_methods |-> allowed_methods,
     called |-> TRUE]

\* the caller holds no earlier result
NoKept == [call |-> NoCall, outcome |-> NoOutcome, facade |-> NoOutcome]

InitCall ==
    /\ pc = "idle"
    /\ call = NoCall
    /\ req = NoReq
    /\ query = NoQuery
    /\ sent = NoHeaders
    /\ caller = NoMappings
    /\ getCount = 0
    /\ attempts = 0
    /\ retry = NoRetry
    /\ hist = << >>
    /\ outcome = NoOutcome
    /\ facade = NoOutcome
    /\ calls = 0
    /\ facadeCalls = 0
    /\ usedSessions = {}
    /\ kept = NoKept
    /\ asked = NotAsked

\* no geometry has been handed to Geometry
NoGeometry == [type |-> None, coordinates |-> JNull]
NotValidated == << >>

InitModel ==
    /\ geom = NoGeometry
    /\ validated = NotValidated

InitThreads ==
    /\ tpc = [t \in 1..NThreads |-> "off"]
    /\ tlocal = [t \in 1..NThreads |-> 0]
    /\ tconn = [t \in 1..NThreads |-> NoAdapter]
    /\ mounted = << >>
    /\ pool = [a \in {} |-> 0]

Init ==
    /\ api_key \in ApiKeys
    /\ base_url \in BaseUrls
    /\ max_retries \in 0..MaxRetriesCfg
    /\ http_connection_pool_size = DEFAULT_POOL_SIZE
    /\ session = 0
    /\ sessions = << >>
    /\ InitCall
    /\ InitThreads
    /\ InitModel

(***************************************************************************)
(* ApiHttpClient.get_json up to the first HTTP attempt: builds the URL,    *)
(* obtains the Session, merges the headers and calls session.get, which    *)
(* sends the request through the adapter mounted for the URL's prefix with *)
(* a copy of that adapter's Retry.                                         *)
(***************************************************************************)
get_json(via, request_path, params, options) ==
    LET url == _make_url(request_path)
        rs == _request_session(DefaultStatusForcelist, DefaultAllowedMethods)
        headers == HeadersOf(options)
        headers_with_auth == _with_auth_headers(headers)
    IN  /\ pc = "idle"
        /\ calls < MaxCalls
        /\ session' = rs.session
        /\ sessions' = rs.sessions
        /\ call' = [via |-> via, request_path |-> request_path,
                    params |-> params, options |-> options]
        /\ req' = [url |-> url, params |-> params, headers |-> headers_with_auth,
                   timeout |-> REQUEST_TIMEOUT, session |-> rs.session]
        /\ query' = _encode_params(params)
        /\ sent' = prepare_headers(headers_with_auth)
        /\ caller' = CallerMappings(params, options)
        /\ asked' = Asked(DefaultStatusForcelist, DefaultAllowedMethods)
        /\ getCount' = 1
        /\ attempts' = 1
        /\ retry' = get_adapter(rs.sessions[rs.session], url).max_retries
        /\ hist' = << >>
        /\ outcome' = NoOutcome
        /\ facade' = NoOutcome
        /\ calls' = calls + 1
        /\ facadeCalls' = IF via \in Methods THEN facadeCalls + 1 ELSE facadeCalls
        /\ usedSessions' = usedSessions \cup {rs.session}
        /\ pc' = "sending"
        /\ UNCHANGED << clientVars, modelVars, threadVars, kept >>

GetJson ==
    \E i \in GetJsonInputs :
        get_json("get_json", i.request_path, i.params, i.options)

(***************************************************************************)
(* One HTTP attempt comes back with a response.  urllib3 either retries    *)
(* (Retry.is_retry, Retry.increment), gives up with MaxRetryError, which   *)
(* requests raises as RetryError, or hands the response back; get_json     *)
(* then runs raise_for_status and returns response.json().                 *)
(***************************************************************************)
FinishRetriesInvalid(o) ==
    LET f == IF call.via \in Methods THEN FacadeReturn(call.via, o) ELSE NoOutcome
    IN  /\ outcome' = o
        /\ facade' = f
        /\ pc' = IF f.kind = "ValidationError" THEN "sending" ELSE "done"
        /\ attempts' = IF f.kind = "ValidationError" THEN attempts + 1 ELSE attempts

Finish(o) ==
    /\ outcome' = o
    /\ facade' = IF call.via \in Methods THEN FacadeReturn(call.via, o) ELSE NoOutcome
    /\ pc' = "done"
    /\ attempts' = attempts

Respond(r) ==
    /\ pc = "sending"
    /\ hist' = Append(hist, r)
    /\ IF is_retry(retry, "GET", r.status_code, r.retry_after)
       THEN /\ retry' = increment(retry)
            /\ IF is_exhausted(increment(retry))
               THEN IF retry.raise_on_status
                    THEN Finish(RetryError)
                    ELSE Finish(IF raise_for_status(r.status_code)
                                THEN HTTPError(r) ELSE Returned(r))
               ELSE /\ attempts' = attempts + 1
                    /\ UNCHANGED << pc, outcome, facade >>
       ELSE /\ retry' = retry
            /\ Finish(IF raise_for_status(r.status_code)
                      THEN HTTPError(r) ELSE Returned(r))
    /\ UNCHANGED << clientVars, modelVars, threadVars, session, sessions, call,
                    req, query, sent, caller, getCount, calls, facadeCalls,
                    usedSessions, kept, asked >>

ServerResponds == \E r \in Responses : Respond(r)

FacadeServerResponds == \E r \in FacadeResponses : Respond(r)

(***************************************************************************)
(* One HTTP attempt fails below HTTP (DNS, refused or timed-out            *)
(* connection).  urllib3 counts it against Retry.total and tries again;    *)
(* once the budget is spent requests raises ConnectionError.               *)
(***************************************************************************)
NetworkFails ==
    /\ pc = "sending"
    /\ hist' = Append(hist, NetworkError)
    /\ retry' = increment(retry)
    /\ IF is_exhausted(increment(retry))
       THEN Finish(ConnectionError)
       ELSE /\ attempts' = attempts + 1
            /\ UNCHANGED << pc, outcome, facade >>
    /\ UNCHANGED << clientVars, modelVars, threadVars, session, sessions, call,
                    req, query, sent, caller, getCount, calls, facadeCalls,
                    usedSessions, kept, asked >>

(***************************************************************************)
(* The caller has the result or the exception of its call in hand and goes *)
(* on; nothing of the finished call is kept but what the client keeps and  *)
(* what the caller itself holds on to.                                     *)
(***************************************************************************)
CallerGoesOn(holding) ==
    /\ pc = "done"
    /\ kept' = holding
    /\ pc' = "idle"
    /\ call' = NoCall
    /\ req' = NoReq
    /\ getCount' = 0
    /\ attempts' = 0
    /\ retry' = NoRetry
    /\ hist' = << >>
    /\ outcome' = NoOutcome
    /\ facade' = NoOutcome
    /\ query' = NoQuery
    /\ sent' = NoHeaders
    /\ caller' = NoMappings
    /\ UNCHANGED << clientVars, modelVars, threadVars, session, sessions, calls,
                    facadeCalls, usedSessions, asked >>

\* the caller drops the result
CallerContinues == CallerGoesOn(kept)

\* the caller keeps the result of a Client method next to the call it made
CallerKeeps ==
    /\ call.via \in Methods
    /\ CallerGoesOn([call |-> call, outcome |-> outcome, facade |-> facade])

(***************************************************************************)
(* A Client method: builds the params dict from its keyword arguments and  *)
(* calls _get_data or _get_geo_data, which call get_json.                  *)
(***************************************************************************)
FacadeOptions(e) ==
    IF e.passes_options
    THEN {NoneDict, Some([headers |-> << << "Content-Type", "application/json" >> >>])}
    ELSE {NoneDict}

FacadeCall ==
    \E e \in Endpoints, given \in BOOLEAN :
        \E options \in FacadeOptions(e) :
            get_json(e.method, e.request_path, Some(ParamsOf(e, Kwargs(e, given))),
                     options)

\* Client.create(api_key): an ApiHttpClient with every default
InitFacade ==
    /\ api_key \in ApiKeys
    /\ base_url = DEFAULT_BASE_URL
    /\ max_retries = DEFAULT_MAX_RETRIES
    /\ http_connection_pool_size = DEFAULT_POOL_SIZE
    /\ session = 0
    /\ sessions = << >>
    /\ InitCall
    /\ InitThreads
    /\ InitModel

NextFacade ==
    \/ FacadeCall
    \/ FacadeServerResponds
    \/ NetworkFails
    \/ CallerContinues

SpecFacade == InitFacade /\ [][NextFacade]_vars

(***************************************************************************)
(* A caller that makes a Client method call, keeps what it got, and makes  *)
(* the same call again with the same arguments, on a client that does not  *)
(* retry: Client(ApiHttpClient(api_key, max_retries=0)).                   *)
(***************************************************************************)
InitRepeat ==
    /\ api_key \in ApiKeys
    /\ base_url = DEFAULT_BASE_URL
    /\ max_retries = 0
    /\ http_connection_pool_size = DEFAULT_POOL_SIZE
    /\ session = 0
    /\ sessions = << >>
    /\ InitCall
    /\ InitThreads
    /\ InitModel

FirstCall == kept = NoKept /\ FacadeCall

RepeatCall ==
    /\ kept # NoKept
    /\ get_json(kept.call.via, kept.call.request_path, kept.call.params,
                kept.call.options)

NextRepeat ==
    \/ FirstCall
    \/ RepeatCall
    \/ FacadeServerResponds
    \/ NetworkFails
    \/ CallerKeeps

SpecRepeat == InitRepeat /\ [][NextRepeat]_vars

Next ==
    \/ GetJson
    \/ ServerResponds
    \/ NetworkFails
    \/ CallerContinues

Spec == Init /\ [][Next]_vars

(***************************************************************************)
(* ApiHttpClient._request_session called directly, with each argument left *)
(* out (None: the default list is taken) or given, between get_json calls  *)
(* without params or options.                                              *)
(***************************************************************************)
StatusForcelists == {NoneDict, Some({}), Some({404, 503})}
AllowedMethodLists == {NoneDict, Some({"POST"})}

\* `if x is None: x = default`
OrDefault(x, default) == IF x = NoneDict THEN default ELSE x[1]

RequestSession ==
    \E sf \in StatusForcelists, am \in AllowedMethodLists :
        LET status_forcelist == OrDefault(sf, DefaultStatusForcelist)
            allowed_methods == OrDefault(am, DefaultAllowedMethods)
            rs == _request_session(status_forcelist, allowed_methods)
        IN  /\ pc = "idle"
            /\ session' = rs.session
            /\ sessions' = rs.sessions
            /\ asked' = Asked(status_forcelist, allowed_methods)
            /\ UNCHANGED << clientVars, modelVars, threadVars, pc, call, req,
                            query, sent, caller, getCount, attempts, retry, hist,
                            outcome, facade, calls, facadeCalls, usedSessions,
                            kept >>

GetJsonPlain == get_json("get_json", "some-endpoint", NoneDict, NoneDict)

InitSession ==
    /\ api_key \in ApiKeys
    /\ base_url = DEFAULT_BASE_URL
    /\ max_retries \in 0..MaxRetriesCfg
    /\ http_connection_pool_size = DEFAULT_POOL_SIZE
    /\ session = 0
    /\ sessions = << >>
    /\ InitCall
    /\ InitThreads
    /\ InitModel

NextSession ==
    \/ RequestSession
    \/ GetJsonPlain
    \/ ServerResponds
    \/ NetworkFails
    \/ CallerContinues

SpecSession == InitSession /\ [][NextSession]_vars

(***************************************************************************)
(* Properties of the transport (specification Spec)                        *)
(***************************************************************************)
DefaultConfig ==
    /\ base_url = DEFAULT_BASE_URL
    /\ max_retries = DEFAULT_MAX_RETRIES
    /\ http_connection_pool_size = DEFAULT_POOL_SIZE

AllTransient(h) ==
    \A i \in DOMAIN h :
        h[i].event = "response" /\ h[i].status_code \in {429, 500, 502, 503, 504}

\* C1 as stated: a get_json call on a client configured with max_retries = N
\* (N at least 1) never has more than N HTTP attempts, the first included.
C1_AtMostNAttempts == max_retries >= 1 => attempts <= max_retries

\* C1 as amended: a get_json call on a client configured with
\* max_retries = N never has more than N + 1 HTTP attempts: the first
\* attempt and at most N retries.
C1_AtMostNRetries == attempts <= max_retries + 1

C1_Witness ==
    /\ DefaultConfig
    /\ pc = "done"
    /\ attempts = max_retries + 1
    /\ outcome.kind = "RetryError"

\* C2: with the default configuration, while the server has answered 503
\* once or twice the call is still in progress with its next attempt on the
\* wire, and when 200 follows two 503s the call has returned the parsed
\* body of that 200 response after exactly 3 HTTP attempts.
C2_TwoFailuresThenSuccess ==
    DefaultConfig =>
        /\ StatusCodes(hist) \in { << 503 >>, << 503, 503 >> } =>
               /\ pc = "sending"
               /\ attempts = Len(hist) + 1
        /\ StatusCodes(hist) = << 503, 503, 200 >> =>
               /\ pc = "done"
               /\ outcome.kind = "returned"
               /\ outcome.value = << hist[3].json >>
               /\ attempts = 3

C2_Witness ==
    /\ DefaultConfig
    /\ StatusCodes(hist) = << 503, 503, 200 >>
    /\ outcome.kind = "returned"
    /\ outcome.value = << BodyCities >>

\* C3 as stated: when every attempt of a finished call received a transient
\* status (429, 500, 502, 503 or 504), the call failed with an HTTP error
\* carrying the status code of the final response.
C3_ExhaustedRaisesHTTPError ==
    (pc = "done" /\ hist # << >> /\ AllTransient(hist)) =>
        /\ outcome.kind = "HTTPError"
        /\ outcome.response # << >>
        /\ outcome.response[1].status_code = hist[Len(hist)].status_code
        /\ outcome.value = << >>

\* C4 as stated: when the first response of a call has a failure status
\* outside {429, 500, 502, 503, 504}, the call has made exactly one HTTP
\* attempt and failed with an HTTP error carrying that status.
C4_NonTransientFailsAtOnce ==
    (/\ hist # << >>
     /\ hist[1].event = "response"
     /\ hist[1].status_code >= 400
     /\ hist[1].status_code \notin {429, 500, 502, 503, 504}) =>
        /\ pc = "done"
        /\ attempts = 1
        /\ outcome.kind = "HTTPError"
        /\ outcome.response = << hist[1] >>

\* C6: used sequentially, the client has no session before its first
\* get_json call; from the first call on exactly one Session has ever been
\* created, the client holds it, and every call handed its GET to it.
C6_OneSessionSequential ==
    /\ calls = 0 => (session = 0 /\ sessions = << >> /\ usedSessions = {})
    /\ calls >= 1 =>
           /\ Len(sessions) = 1
           /\ session = 1
           /\ usedSessions = {1}
           /\ pc # "idle" => req.session = 1

C6_Witness ==
    /\ calls >= 2
    /\ pc = "done"
    /\ outcome.kind = "returned"
    /\ Len(sessions) = 1

\* C9: a get_json call makes exactly one session GET, to the URL base_url,
\* "/", request_path, with the caller's params unchanged, the caller's
\* headers plus Ocp-Apim-Subscription-Key set to the API key, and timeout
\* 30; when it returns, it returns the JSON body of the final response.
C9_RequestAsBuilt ==
    pc # "idle" =>
        /\ getCount = 1
        /\ req.url = base_url \o "/" \o call.request_path
        /\ req.params = call.params
        /\ req.timeout = 30
        /\ Keys(req.headers) =
               Keys(HeadersOf(call.options)) \cup {"Ocp-Apim-Subscription-Key"}
        /\ ItemValue(req.headers, "Ocp-Apim-Subscription-Key") = api_key
        /\ \A k \in Keys(HeadersOf(call.options)) :
               k # "Ocp-Apim-Subscription-Key" =>
                   ItemValue(req.headers, k) = ItemValue(HeadersOf(call.options), k)
        /\ outcome.kind = "returned" =>
               /\ hist[Len(hist)].status_code = 200
               /\ outcome.value = << hist[Len(hist)].json >>

C9_Witness ==
    /\ pc = "done"
    /\ outcome.kind = "returned"
    /\ outcome.value = << BodyCities >>
    /\ "Content-Type" \in Keys(req.headers)
    /\ req.params # NoneDict

(***************************************************************************)
(* Properties of the Client methods (specification SpecFacade)             *)
(***************************************************************************)
\* C5: a call whose last attempt failed at the network level ends with a
\* ConnectionError, which is not the HTTPError that raise_for_status
\* raises, and the Client method that made the call ends with that same
\* exception and returns no value.
C5_NetworkFailurePropagates ==
    (pc = "done" /\ hist[Len(hist)].event = "network_error") =>
        /\ outcome.kind = "ConnectionError"
        /\ outcome.kind # "HTTPError"
        /\ outcome.value = << >>
        /\ call.via \in Methods =>
               /\ facade.kind = "ConnectionError"
               /\ facade.value = << >>

C5_Witness ==
    /\ pc = "done"
    /\ call.via = "get_city_list"
    /\ hist[Len(hist)].event = "network_error"
    /\ facade.kind = "ConnectionError"

EndpointCode(m) ==
    LET path == EndpointOf(m).request_path
    IN  SubSeq(path, Len(path) - 5, Len(path))

\* C10 as stated: a Client method with endpoint code CODE, on a client with
\* the default base URL, requests exactly
\* https://www.reinfolib.mlit.go.jp/ex-api/external/CODE.
C10_EndpointUrl ==
    (pc # "idle" /\ call.via \in Methods /\ base_url = DEFAULT_BASE_URL) =>
        req.url = "https://www.reinfolib.mlit.go.jp/ex-api/external/"
                      \o EndpointCode(call.via)

(***************************************************************************)
(* Threads calling get_json on one client at the same time.  Nothing in    *)
(* ApiHttpClient synchronises them, so a thread can be preempted between   *)
(* any two reads or writes of self._session:                               *)
(*   "start"    about to evaluate `self._session is None`                  *)
(*   "create"   saw None; about to assign self._session = Session()        *)
(*   "mount"    about to call self._session.mount("https://", adapter)     *)
(*   "return"   about to evaluate `return self._session`                   *)
(*   "get"      holds a Session; about to send through its adapter         *)
(*   "inflight" its connection is in use, the response not yet read        *)
(*   "done"     connection handed back to the pool                         *)
(* An adapter is named by what created it: << "configured", t >> for the   *)
(* HTTPAdapter thread t built, << "builtin", k >> for the one Session k    *)
(* came with.                                                              *)
(***************************************************************************)
Threads == 1..NThreads

InFlight == { t \in Threads : tpc[t] = "inflight" }

TCheck(t) ==
    /\ tpc[t] = "start"
    /\ tpc' = [tpc EXCEPT ![t] = IF session = 0 THEN "create" ELSE "return"]
    /\ UNCHANGED << clientVars, modelVars, callVars, session, sessions, tlocal, tconn,
                    mounted, pool >>

TCreate(t) ==
    /\ tpc[t] = "create"
    /\ session' = Len(sessions) + 1
    /\ sessions' = Append(sessions, NewSession)
    /\ mounted' = Append(mounted, 0)
    /\ pool' = pool @@ (<< "builtin", Len(sessions) + 1 >> :> BuiltinAdapter.pool_maxsize)
    /\ tpc' = [tpc EXCEPT ![t] = "mount"]
    /\ UNCHANGED << clientVars, modelVars, callVars, tlocal, tconn >>

TMount(t) ==
    /\ tpc[t] = "mount"
    /\ sessions' = [sessions EXCEPT ![session] =
                        Mount(@, "https://",
                              ConfiguredAdapter(DefaultStatusForcelist,
                                                DefaultAllowedMethods))]
    /\ mounted' = [mounted EXCEPT ![session] = t]
    /\ pool' = pool @@ (<< "configured", t >> :>
                           ConfiguredAdapter(DefaultStatusForcelist,
                                             DefaultAllowedMethods).pool_maxsize)
    /\ tpc' = [tpc EXCEPT ![t] = "return"]
    /\ UNCHANGED << clientVars, modelVars, callVars, session, tlocal, tconn >>

TReturn(t) ==
    /\ tpc[t] = "return"
    /\ tlocal' = [tlocal EXCEPT ![t] = session]
    /\ tpc' = [tpc EXCEPT ![t] = "get"]
    /\ UNCHANGED << clientVars, modelVars, callVars, session, sessions, tconn, mounted, pool >>

\* the adapter session.get sends through, by name
AdapterOf(s) ==
    IF get_adapter(sessions[s], _make_url("some-endpoint")).configured
    THEN << "configured", mounted[s] >>
    ELSE << "builtin", s >>

\* HTTPConnectionPool._get_conn: takes a queued connection or slot when there
\* is one; with an empty queue it waits when the pool blocks and opens a
\* further connection when it does not
PoolGet(queued, pool_block) ==
    IF queued > 0 THEN [enabled |-> TRUE, queued |-> queued - 1]
    ELSE [enabled |-> ~pool_block, queued |-> queued]

\* HTTPConnectionPool._put_conn: queues the connection for reuse unless the
\* queue already holds pool_maxsize, in which case the connection is closed
PoolPut(queued, pool_maxsize) ==
    IF queued < pool_maxsize THEN queued + 1 ELSE queued

TGet(t) ==
    /\ tpc[t] = "get"
    /\ LET a == AdapterOf(tlocal[t])
           adapter == get_adapter(sessions[tlocal[t]], _make_url("some-endpoint"))
           got == PoolGet(pool[a], adapter.pool_block)
       IN  /\ got.enabled
           /\ pool' = [pool EXCEPT ![a] = got.queued]
           /\ tconn' = [tconn EXCEPT ![t] = a]
    /\ tpc' = [tpc EXCEPT ![t] = "inflight"]
    /\ UNCHANGED << clientVars, modelVars, callVars, session, sessions, tlocal, mounted >>

MaxSizeOf(a) ==
    IF a[1] = "configured"
    THEN ConfiguredAdapter(DefaultStatusForcelist, DefaultAllowedMethods).pool_maxsize
    ELSE BuiltinAdapter.pool_maxsize

TFinish(t) ==
    /\ tpc[t] = "inflight"
    /\ pool' = [pool EXCEPT ![tconn[t]] = PoolPut(@, MaxSizeOf(tconn[t]))]
    /\ tpc' = [tpc EXCEPT ![t] = "done"]
    /\ UNCHANGED << clientVars, modelVars, callVars, session, sessions, tlocal, tconn, mounted >>

InitConc ==
    /\ api_key \in ApiKeys
    /\ base_url = DEFAULT_BASE_URL
    /\ max_retries = DEFAULT_MAX_RETRIES
    /\ http_connection_pool_size \in 1..MaxPool
    /\ session = 0
    /\ sessions = << >>
    /\ InitCall
    /\ InitModel
    /\ tpc = [t \in Threads |-> "start"]
    /\ tlocal = [t \in Threads |-> 0]
    /\ tconn = [t \in Threads |-> NoAdapter]
    /\ mounted = << >>
    /\ pool = [a \in {} |-> 0]

NextConc ==
    \/ \E t \in Threads : TCheck(t)
    \/ \E t \in Threads : TCreate(t)
    \/ \E t \in Threads : TMount(t)
    \/ \E t \in Threads : TReturn(t)
    \/ \E t \in Threads : TGet(t)
    \/ \E t \in Threads : TFinish(t)

SpecConc == InitConc /\ [][NextConc]_vars

(***************************************************************************)
(* Properties of concurrent use (specification SpecConc)                   *)
(***************************************************************************)
\* C7 as stated: when several threads call get_json concurrently on one
\* fresh client, at most one Session is ever created and all threads use
\* that same Session.
C7_OneSessionConcurrent ==
    /\ Len(sessions) <= 1
    /\ \A t, u \in Threads : (tlocal[t] # 0 /\ tlocal[u] # 0) => tlocal[t] = tlocal[u]

\* C8 as stated: with pool size P, never more than P connections are in
\* flight at once through the pool of an adapter the client mounted.
C8_InFlightBounded ==
    \A a \in DOMAIN pool :
        a[1] = "configured" =>
            Cardinality({ t \in InFlight : tconn[t] = a }) <= http_connection_pool_size

\* C8 as amended: with pool size P, the pool of the mounted adapter never
\* keeps more than P connections for reuse, and a caller is never made to
\* wait at the pool: arriving when no pooled connection is free, it opens a
\* further connection, so more than P may be in flight at once.
C8_PoolKeepsAtMostP ==
    /\ \A a \in DOMAIN pool :
           a[1] = "configured" => (pool[a] >= 0 /\ pool[a] <= http_connection_pool_size)
    /\ \A t \in Threads : tpc[t] = "get" => ENABLED TGet(t)

C8_Witness ==
    /\ Len(sessions) = 1
    /\ \E a \in DOMAIN pool :
           /\ a[1] = "configured"
           /\ pool[a] = 0
           /\ Cardinality({ t \in InFlight : tconn[t] = a }) > http_connection_pool_size

(***************************************************************************)
(* Geometry on its own: a raw geometry dict, as it arrives inside a        *)
(* feature, is handed to Geometry.                                         *)
(***************************************************************************)
Leaves == {JFloat("139.0"), JFloat("35.0"), JInt("35")}

\* the lists of at most n elements of S
Lists(S, n) == UNION { [1..k -> S] : k \in 0..n }

\* coordinates nested up to the given depth: numbers and lists mix at the
\* second level, where a list has at most two elements; deeper lists have at
\* most one
RECURSIVE Nested(_)
Nested(depth) ==
    IF depth = 0 THEN Leaves
    ELSE IF depth = 1 THEN { JList(l) : l \in Lists(Leaves, MaxWidth) }
    ELSE IF depth = 2 THEN { JList(l) : l \in Lists(Leaves \cup Nested(1), 2) }
    ELSE { JList(l) : l \in Lists(Nested(depth - 1), 1) }

GeometryInputs ==
    { [type |-> type, coordinates |-> c] :
        type \in GeometryTypes \cup {"MultiPoint"},
        c \in UNION { Nested(depth) : depth \in 0..4 } }

ValidateGeometry ==
    /\ validated = NotValidated
    /\ geom # NoGeometry
    /\ validated' = << Geometry(geom) >>
    /\ UNCHANGED << clientVars, callVars, threadVars, session, sessions, geom >>

InitGeometry ==
    /\ api_key \in ApiKeys
    /\ base_url = DEFAULT_BASE_URL
    /\ max_retries = DEFAULT_MAX_RETRIES
    /\ http_connection_pool_size = DEFAULT_POOL_SIZE
    /\ session = 0
    /\ sessions = << >>
    /\ InitCall
    /\ InitThreads
    /\ geom \in GeometryInputs
    /\ validated = NotValidated

NextGeometry == ValidateGeometry

SpecGeometry == InitGeometry /\ [][NextGeometry]_vars

(***************************************************************************)
(* Properties of what the Client methods send (specification SpecFacade)   *)
(***************************************************************************)
\* the endpoint of the Client method whose call is in progress or finished
Current == EndpointOf(call.via)
InFacadeCall == pc # "idle" /\ call.via \in Methods

\* the key of the params dict that carries keyword argument a
ParamKeyOf(e, a) ==
    (CHOOSE p \in Range(e.params) : p[2] = "arg" /\ p[3] = a)[1]

\* C11: for every Client method, a key of the params dict whose argument the
\* caller left unset (None) is absent from the query string; no key of the
\* query string carries None or the string "None"; every key whose argument
\* has a value is in the query string with that value.
C11_UnsetParamsOmitted ==
    InFacadeCall =>
        /\ \A a \in DOMAIN Current.defaults :
               LET k == ParamKeyOf(Current, a)
               IN  call.params[1][k] = None => k \notin DOMAIN query
        /\ \A k \in DOMAIN query : query[k] # None /\ query[k] # "None"
        /\ \A k \in DOMAIN call.params[1] :
               call.params[1][k] # None =>
                   (k \in DOMAIN query /\ query[k] = call.params[1][k])

C11_Witness ==
    /\ InFacadeCall
    /\ call.via = "get_transaction_price_list"
    /\ call.params[1]["area"] = None
    /\ call.params[1]["priceClassification"] = None
    /\ DOMAIN query = {"year"}

IsGeo(m) == EndpointOf(m).fetch = "_get_geo_data"
IsTabular(m) == EndpointOf(m).fetch = "_get_data"

Body == outcome.value[1]
GotBody == pc = "done" /\ call.via \in Methods /\ outcome.kind = "returned"
GotData == GotBody /\ IsTabular(call.via) /\ DataAPIResponse(Body)
GotFeatures == GotBody /\ IsGeo(call.via) /\ "features" \in DOMAIN Body

\* C13: when a tabular method received a body with status and data
\* [d1..dn], every di valid for the method's record class, it returns a list
\* of length n whose i-th element is the record built from di alone.
C13_OneRecordPerElement ==
    (GotData /\ \A i \in DOMAIN Body.data : Construct(Current.cls, Body.data[i]).ok) =>
        /\ facade.kind = "returned"
        /\ Len(facade.value[1]) = Len(Body.data)
        /\ \A i \in DOMAIN Body.data :
               facade.value[1][i] = Construct(Current.cls, Body.data[i]).record

C13_Witness ==
    /\ GotData
    /\ call.via = "get_transaction_price_list"
    /\ Body = BodyPrices
    /\ facade.kind = "returned"
    /\ Len(facade.value[1]) = 3
    /\ facade.value[1][1].type_ = JStr("Land")
    /\ facade.value[1][1].trade_price = JInt("5000000")
    /\ facade.value[1][1].area = JFloat("120.0")
    /\ facade.value[1][1].frontage = JNull
    /\ facade.value[1][2].unit_price = JFloat("1.5")
    /\ facade.value[1][3].type_ = JStr("Forest")
    /\ facade.value[1][3].price_per_unit = JInt("12")

\* the records a Client method returned with the raw objects they were built
\* from: the elements of data, or the properties of the features
ReturnedRecord(i) ==
    IF IsTabular(call.via) THEN facade.value[1][i] ELSE facade.value[1][i].properties
RawObject(i) ==
    IF IsTabular(call.via) THEN Body.data[i] ELSE Body.features[i].properties

IsBlankStr(v) == v.t = "str" /\ IsBlank(v.v)

\* C14: in every record a Client method returned, no field holds an empty
\* or whitespace-only string, and every field that the raw object does not
\* name, or gives an empty or whitespace-only string, is null.
C14_NoBlankStrings ==
    (GotBody /\ facade.kind = "returned") =>
        \A i \in DOMAIN facade.value[1] :
            \A f \in Range(Fields(Current.cls)) :
                /\ ~IsBlankStr(ReturnedRecord(i)[f.name])
                /\ (~Present(f, RawObject(i)) \/ IsBlankStr(RawValue(f, RawObject(i))))
                       => ReturnedRecord(i)[f.name] = JNull

C14_Witness ==
    /\ GotBody
    /\ call.via = "get_transaction_price_list"
    /\ Body = BodyPrices
    /\ facade.kind = "returned"
    /\ RawObject(1)["Frontage"] = JStr("")
    /\ ReturnedRecord(1).frontage = JNull
    /\ ReturnedRecord(1).remarks = JNull
    /\ ReturnedRecord(1).region = JNull
    /\ ReturnedRecord(3).region = JStr(" Hills ")

\* d names no value for some required field of cls
LacksRequired(cls, d) == \E f \in RequiredFields(cls) : ~Present(f, d)

\* d gives some field of cls a value that is not of the field's declared
\* type and cannot be converted to it
HoldsUncoercible(cls, d) ==
    \E f \in Range(Fields(cls)) :
        /\ Present(f, d)
        /\ RawValue(f, d) # JNull
        /\ ~IsBlankStr(RawValue(f, d))
        /\ ~Coerce(f.type, RawValue(f, d)).ok

\* C15: when some element of the data a tabular method received lacks a
\* required field of the record class or holds a value that cannot be
\* coerced to its field's type, the method fails with a ValidationError.
C15_InvalidRowRaises ==
    (GotData /\ \E i \in DOMAIN Body.data :
                    \/ LacksRequired(Current.cls, Body.data[i])
                    \/ HoldsUncoercible(Current.cls, Body.data[i])) =>
        /\ facade.kind = "ValidationError"
        /\ facade.value = << >>

C15_Witness ==
    /\ GotData
    /\ call.via = "get_transaction_price_list"
    /\ Body = BodyPricesWith(PriceRowNoCategory, 3)
    /\ LacksRequired("TransactionPrice", Body.data[3])
    /\ ~HoldsUncoercible("TransactionPrice", Body.data[3])
    /\ facade.kind = "ValidationError"

\* C18: when a geo method received features [f1..fn], every fi with valid
\* properties, a type and a valid geometry, it returns a list of length n
\* whose i-th item holds the geometry of fi and the record built from the
\* properties of fi.
C18_OneItemPerFeature ==
    (GotFeatures /\ \A i \in DOMAIN Body.features :
                        PropertiesOk(Current.cls, Body.features[i]) /\ ItemOk(Body.features[i])) =>
        /\ facade.kind = "returned"
        /\ Len(facade.value[1]) = Len(Body.features)
        /\ \A i \in DOMAIN Body.features :
               /\ facade.value[1][i].geometry.type = Body.features[i].geometry.type
               /\ facade.value[1][i].geometry.coordinates
                      = CoerceFloats(Body.features[i].geometry.coordinates)
               /\ facade.value[1][i].properties
                      = Construct(Current.cls, Body.features[i].properties).record

C18_Witness ==
    /\ GotFeatures
    /\ call.via = "get_natural_park_gis_list"
    /\ Body = BodyGeo
    /\ facade.kind = "returned"
    /\ Len(facade.value[1]) = 2
    /\ facade.value[1][1].geometry.type = "Point"
    /\ facade.value[1][1].geometry.coordinates = JList(<< JFloat("139.0"), JFloat("35.0") >>)
    /\ facade.value[1][1].properties.object_id = JInt("1")
    /\ facade.value[1][1].properties.shape_area = JFloat("10.5")
    /\ facade.value[1][2].geometry.type = "Polygon"
    /\ facade.value[1][2].properties.object_id = JInt("2")
    /\ facade.value[1][2].properties.prefecture_cd = JNull

\* some element of the data, or some feature, does not validate
SomeElementInvalid ==
    \/ GotData /\ \E i \in DOMAIN Body.data : ~Construct(Current.cls, Body.data[i]).ok
    \/ GotFeatures /\ \E i \in DOMAIN Body.features :
           ~PropertiesOk(Current.cls, Body.features[i]) \/ ~ItemOk(Body.features[i])

\* C19: when any element of the data or any feature a Client method
\* received does not validate, the method raises and returns nothing,
\* wherever the element stands and however many others are valid.
C19_AllOrNothing ==
    SomeElementInvalid =>
        /\ facade.kind \in {"ValidationError", "KeyError"}
        /\ facade.value = << >>

C19_Witness ==
    /\ GotFeatures
    /\ call.via = "get_natural_park_gis_list"
    /\ Body = FeatureCollection(<< PointFeature, PolygonFeature, NoGeometryFeature >>)
    /\ PropertiesOk(Current.cls, Body.features[1]) /\ ItemOk(Body.features[1])
    /\ ~ItemOk(Body.features[3])
    /\ facade.kind = "ValidationError"
    /\ facade.value = << >>

\* C20: every Client method call makes exactly one get_json call, which
\* makes one session GET; when the method ends with a ValidationError the
\* call is over: no further HTTP attempt follows.
C20_OneTransportCall ==
    /\ calls = facadeCalls
    /\ InFacadeCall => getCount = 1
    /\ facade.kind = "ValidationError" =>
           /\ pc = "done"
           /\ outcome.kind = "returned"
           /\ attempts = Len(hist)
           /\ ~ENABLED FacadeServerResponds
           /\ ~ENABLED NetworkFails

C20_Witness ==
    /\ facadeCalls = 2
    /\ calls = 2
    /\ pc = "done"
    /\ facade.kind = "ValidationError"
    /\ attempts = 1
    /\ getCount = 1

(***************************************************************************)
(* Properties of Geometry (specification SpecGeometry)                     *)
(***************************************************************************)
DepthOfType(type) ==
    CASE type = "Point" -> 1
      [] type = "LineString" -> 2
      [] type = "Polygon" -> 3
      [] type = "MultiPolygon" -> 4

Max(S) == CHOOSE x \in S : \A y \in S : y <= x

\* nesting depth of a JSON value: 0 for a number, 1 for a list of numbers
\* or an empty list, and so on
RECURSIVE Depth(_)
Depth(j) ==
    IF j.t # "list" THEN 0
    ELSE 1 + Max({0} \cup { Depth(j.v[i]) : i \in 1..Len(j.v) })

RECURSIVE NoEmptyList(_)
NoEmptyList(j) ==
    j.t = "list" => (Len(j.v) > 0 /\ \A i \in 1..Len(j.v) : NoEmptyList(j.v[i]))

\* non-empty lists nested exactly k levels deep around floats
RECURSIVE FloatsNestedExactly(_, _)
FloatsNestedExactly(j, k) ==
    IF k = 0 THEN j.t = "float"
    ELSE /\ j.t = "list"
         /\ Len(j.v) > 0
         /\ \A i \in 1..Len(j.v) : FloatsNestedExactly(j.v[i], k - 1)

Accepted == validated # NotValidated /\ validated[1].ok
Rejected == validated # NotValidated /\ ~validated[1].ok

\* C16 as stated: a geometry of one of the four types whose coordinates are
\* a nested list is accepted only if the nesting depth of the coordinates is
\* 1, 2, 3 or 4 according to its type.
C16_AcceptedDepthMatches ==
    (Accepted /\ geom.type \in GeometryTypes /\ geom.coordinates.t = "list") =>
        Depth(geom.coordinates) = DepthOfType(geom.type)

\* C16 as amended: a geometry of one of the four types whose coordinates
\* are a nested list without any empty list in it is accepted only if the
\* nesting depth of the coordinates is 1, 2, 3 or 4 according to its type;
\* a Polygon with coordinates [[139.0, 35.0]] is rejected, while a Polygon
\* with coordinates [] or [[]] is accepted.
C16_AcceptedDepthMatchesNonEmpty ==
    /\ (Accepted /\ geom.type \in GeometryTypes /\ geom.coordinates.t = "list"
        /\ NoEmptyList(geom.coordinates)) =>
           Depth(geom.coordinates) = DepthOfType(geom.type)
    /\ (validated # NotValidated /\ geom.type = "Polygon"
        /\ geom.coordinates = JList(<< JList(<< JFloat("139.0"), JFloat("35.0") >>) >>)) =>
           Rejected
    /\ (validated # NotValidated /\ geom.type = "Polygon"
        /\ geom.coordinates \in {JList(<< >>), JList(<< JList(<< >>) >>)}) =>
           Accepted

C16_Witness ==
    /\ Accepted
    /\ geom.type = "Polygon"
    /\ NoEmptyList(geom.coordinates)
    /\ Depth(geom.coordinates) = 3
    /\ geom.coordinates.v[1].v[1].v[1] = JFloat("139.0")

\* C17: a geometry of one of the four types whose coordinates are non-empty
\* lists of floats nested exactly 1, 2, 3 or 4 levels deep according to its
\* type is accepted, and the resulting Geometry has the same type and the
\* same coordinates.
C17_WellFormedAccepted ==
    (validated # NotValidated /\ geom.type \in GeometryTypes
     /\ FloatsNestedExactly(geom.coordinates, DepthOfType(geom.type))) =>
        validated[1] = [ok |-> TRUE, type |-> geom.type,
                        coordinates |-> geom.coordinates]

C17_Witness ==
    /\ geom = [type |-> "Point",
               coordinates |-> JList(<< JFloat("139.0"), JFloat("35.0") >>)]
    /\ validated = << [ok |-> TRUE, type |-> "Point",
                       coordinates |-> JList(<< JFloat("139.0"), JFloat("35.0") >>)] >>

(***************************************************************************)
(* Properties of the errors of the geo fetch (specification SpecFacade)    *)
(***************************************************************************)
\* the body a geo method received has no features array, or one of its
\* features has no properties object
GeoSchemaMismatch ==
    /\ GotBody
    /\ IsGeo(call.via)
    /\ \/ "features" \notin DOMAIN Body
       \/ \E i \in DOMAIN Body.features : "properties" \notin DOMAIN Body.features[i]

\* C21: a geo method that received a body without a features array, or with
\* a feature without a properties object, ends with a ValidationError.
C21_SchemaMismatchIsValidationError ==
    GeoSchemaMismatch => facade.kind = "ValidationError"

(***************************************************************************)
(* Properties of a repeated call (specification SpecRepeat)                *)
(***************************************************************************)
\* the call that just ended is the kept call made again, and both times the
\* server answered 200 with the same body
RepeatedWithSameBody ==
    /\ pc = "done"
    /\ kept # NoKept
    /\ call = kept.call
    /\ outcome.kind = "returned"
    /\ kept.outcome.kind = "returned"
    /\ Body = kept.outcome.value[1]

C23_GetJsonFrame ==
    [][/\ pc' # "idle" => caller' = [params |-> call'.params, options |-> call'.options]
       /\ clientVars' = clientVars
       /\ session' # session => (session = 0 /\ session' = Len(sessions) + 1)
       /\ \A i \in DOMAIN sessions : i \in DOMAIN sessions' /\ sessions'[i] = sessions[i]
      ]_vars

C23_Witness ==
    /\ pc = "done"
    /\ calls = 2
    /\ session = 1
    /\ outcome.kind = "HTTPError"
    /\ call.params = Some([param1 |-> "value1", param2 |-> "value2"])
    /\ call.options = Some([headers |-> << << "Content-Type", "application/json" >> >>])
    /\ caller = [params |-> call.params, options |-> call.options]
    /\ Keys(req.headers) = {"Content-Type", AUTH_HEADER}

(***************************************************************************)
(* Properties of the headers sent (specification Spec)                     *)
(***************************************************************************)
\* C24: the header block of every request get_json sends holds the header
\* Ocp-Apim-Subscription-Key (header names do not distinguish case) with
\* the client's API key, whatever headers mapping the caller supplied.
C24_OwnKeySent ==
    pc # "idle" =>
        /\ lower(AUTH_HEADER) \in DOMAIN sent
        /\ sent[lower(AUTH_HEADER)] = api_key

(***************************************************************************)
(* Properties of the envelope (specification SpecFacade)                   *)
(***************************************************************************)
\* C25: a tabular method that received a body whose data elements are all
\* valid but whose status is absent or not a string ends with a
\* ValidationError; a geo method that received a body whose features are
\* all valid returns one item per feature whatever the body's type, name
\* and crs are, absent included.
C25_EnvelopeAsymmetry ==
    /\ (/\ GotBody
        /\ IsTabular(call.via)
        /\ "data" \in DOMAIN Body
        /\ \A i \in DOMAIN Body.data : Construct(Current.cls, Body.data[i]).ok
        /\ ("status" \notin DOMAIN Body \/ Body.status.t # "str")) =>
           facade.kind = "ValidationError"
    /\ (/\ GotBody
        /\ IsGeo(call.via)
        /\ "features" \in DOMAIN Body
        /\ \A i \in DOMAIN Body.features :
               PropertiesOk(Current.cls, Body.features[i]) /\ ItemOk(Body.features[i])) =>
           /\ facade.kind = "returned"
           /\ facade = _get_geo_data(Current.cls,
                                     Returned(Response(200, FALSE,
                                         FeatureCollection(Body.features))))

C25_Witness ==
    /\ GotBody
    /\ call.via = "get_transaction_price_list"
    /\ Body = [status |-> JInt("200"), data |-> BodyPrices.data]
    /\ \A i \in DOMAIN Body.data : Construct("TransactionPrice", Body.data[i]).ok
    /\ facade.kind = "ValidationError"

(***************************************************************************)
(* Properties of blank required fields (specification SpecFacade)          *)
(***************************************************************************)
\* d gives some required field of cls an empty or whitespace-only string
BlankRequired(cls, d) ==
    \E f \in RequiredFields(cls) : Present(f, d) /\ IsBlankStr(RawValue(f, d))

\* the body with every empty or whitespace-only string of its rows made null
BlanksMadeNull(body) ==
    [body EXCEPT !.data =
        [i \in DOMAIN body.data |->
            [k \in DOMAIN body.data[i] |->
                IF IsBlankStr(body.data[i][k]) THEN JNull ELSE body.data[i][k]]]]

\* C26: when a tabular method received a row that gives a required field an
\* empty or whitespace-only string, the method ends with a ValidationError,
\* which is also how it ends on the same body with null in place of every
\* such string.
C26_BlankRequiredFails ==
    (GotData /\ \E i \in DOMAIN Body.data : BlankRequired(Current.cls, Body.data[i])) =>
        /\ facade.kind = "ValidationError"
        /\ facade = _get_data(Current.cls,
                              Returned(Response(200, FALSE, BlanksMadeNull(Body))))

C26_Witness ==
    /\ GotData
    /\ call.via = "get_transaction_price_list"
    /\ Body.data = << [PriceRow2 EXCEPT !.PriceCategory = JStr(" ")] >>
    /\ BlankRequired("TransactionPrice", Body.data[1])
    /\ ~LacksRequired("TransactionPrice", Body.data[1])
    /\ facade.kind = "ValidationError"

(***************************************************************************)
(* Properties of the depth check on numbers (specification SpecGeometry)   *)
(***************************************************************************)
\* non-empty lists nested exactly k levels deep around numbers
RECURSIVE NumbersNestedExactly(_, _)
NumbersNestedExactly(j, k) ==
    IF k = 0 THEN j.t \in {"float", "int"}
    ELSE /\ j.t = "list"
         /\ Len(j.v) > 0
         /\ \A i \in 1..Len(j.v) : NumbersNestedExactly(j.v[i], k - 1)

\* the value reached by taking the first element k times
RECURSIVE FirstInnermost(_, _)
FirstInnermost(j, k) == IF k = 0 THEN j ELSE FirstInnermost(j.v[1], k - 1)

\* C27: a geometry of one of the four types whose coordinates are numbers
\* nested as deep as the type asks is rejected when the first innermost
\* number is an integer, and accepted when it is a float, whatever the
\* other numbers are.
C27_FirstInnermostMustBeFloat ==
    (validated # NotValidated /\ geom.type \in GeometryTypes
     /\ NumbersNestedExactly(geom.coordinates, DepthOfType(geom.type))) =>
        IF FirstInnermost(geom.coordinates, DepthOfType(geom.type)).t = "int"
        THEN Rejected ELSE Accepted

C27_Witness ==
    /\ geom = [type |-> "Point",
               coordinates |-> JList(<< JInt("35"), JFloat("139.0") >>)]
    /\ Rejected

(***************************************************************************)
(* Properties of the scheme of base_url (specification Spec)               *)
(***************************************************************************)
\* C28: the adapter a request goes through is the one carrying the client's
\* retry policy exactly when the URL starts with "https://"; on a client
\* whose base_url starts with "http://" every call makes one attempt, and
\* a call answered with a status in the retry list (429, 503) ends with the
\* HTTPError of that first response.
C28_RetryOnlyOnHttps ==
    pc # "idle" =>
        /\ get_adapter(sessions[req.session], req.url).configured
               <=> StartsWith(base_url, "https://")
        /\ StartsWith(base_url, "http://") =>
               /\ attempts = 1
               /\ Len(hist) <= 1
               /\ (pc = "done" /\ hist[1].event = "response"
                   /\ hist[1].status_code \in DefaultStatusForcelist) =>
                      outcome = HTTPError(hist[1])

C28_Witness ==
    /\ base_url = "http://localhost"
    /\ max_retries = 3
    /\ pc = "done"
    /\ attempts = 1
    /\ hist = << Response(503, FALSE, BodyError) >>
    /\ outcome = HTTPError(hist[1])

(***************************************************************************)
(* Properties of the Session once created (specification SpecSession)      *)
(***************************************************************************)
\* the adapter _request_session builds when called with the arguments a
HTTPAdapterAsked(a) ==
    HTTPAdapter(http_connection_pool_size, http_connection_pool_size,
                Retry(max_retries, a.status_forcelist, a.allowed_methods))

\* C29: the step that creates the Session mounts on "https://" the adapter
\* built from the arguments of that call; once the Session exists no step,
\* whatever arguments _request_session is called with, replaces the
\* Session or alters its adapters: the retry statuses, retry methods, retry
\* count and pool size stay those of the first call.
C29_SessionKeptAsFirstBuilt ==
    [][/\ (session = 0 /\ session' # 0) =>
              sessions'[session'] = Mount(NewSession, "https://", HTTPAdapterAsked(asked'))
       /\ session # 0 => (session' = session /\ sessions' = sessions)
      ]_vars

\* the Session was created by a call with status_forcelist [] and
\* allowed_methods ["POST"]; a later get_json, whose own _request_session
\* call passes the defaults, got a 503 that is not retried
C29_Witness ==
    /\ session = 1
    /\ max_retries = 3
    /\ sessions[1]["https://"] = HTTPAdapterAsked(Asked({}, {"POST"}))
    /\ asked = Asked(DefaultStatusForcelist, DefaultAllowedMethods)
    /\ pc = "done"
    /\ hist = << Response(503, FALSE, BodyError) >>
    /\ outcome = HTTPError(hist[1])

====
